---- MODULE Spec2Model ----
(***************************************************************************)
(* PSXImager (psxrip / psxbuild): the catalog parser, the sector allocator *)
(* (default and strict), the CDDA offset fix-up, the track-1 writer and    *)
(* the CUE generator of psxbuild, and the catalog writer of psxrip.        *)
(*                                                                         *)
(* The filesystem tree is kept as the sequence of its nodes in catalog     *)
(* order, which is the order of FSNode::traverse and of flattenTree; each  *)
(* node names its parent by index (0 for the root).                        *)
(***************************************************************************)
EXTENDS Integers, Sequences, FiniteSets, TLC

\* ------------------------------------------------------------ constants

pvdSector == 16
ISO_EVD_SECTOR == 17
numPathTableSectors == 1
ISO_BLOCKSIZE == 2048
M2RAW_SECTOR_SIZE == 2336
MAX_ISO_SECTORS == 74 * 60 * 75
numSystemSectors == 16
PostgapSectors == 150
XA_SU_LEN == 14
ISO_DIR_HEADER == 33

evdSector == pvdSector + 1
pathTableStartSector == evdSector + 1
rootDirStartSector == pathTableStartSector + numPathTableSectors * 4

\* ------------------------------------------------------------ bounds

\* Number of entries below the root that a catalog may list.
MaxNodes == 2

\* Number of entries below the root of a ripped image.
MaxImgNodes == 2

\* Length of every entry name (with the ";1" suffix of a file).
NameLen == 8

\* ------------------------------------------------------------ arithmetic


\* uint32_t to int conversion (two's complement).

CeilDiv(a, b) == (a + b - 1) \div b


RECURSIVE SeqSum(_)
SeqSum(s) == IF s = <<>> THEN 0 ELSE Head(s) + SeqSum(Tail(s))

\* ------------------------------------------------------------ nodes

IsAudio(n) == n.kind = "cddafile"
IsForm2(n) == n.kind = "xafile"
IsDir(n) == n.kind = "dir"
IsFile(n) == ~IsDir(n)

BlockSize(n) == IF IsForm2(n) THEN M2RAW_SECTOR_SIZE ELSE ISO_BLOCKSIZE

FileNumSectors_NoMinimum(kind, size) ==
    CeilDiv(size, IF kind = "xafile" THEN M2RAW_SECTOR_SIZE ELSE ISO_BLOCKSIZE)

\* FileNode::FileNode: the sector count of a file from its host size.
FileNumSectors(kind, size) ==
    LET blockSize == IF kind = "xafile" THEN M2RAW_SECTOR_SIZE ELSE ISO_BLOCKSIZE
        n == CeilDiv(size, blockSize)
    IN IF n = 0 /\ kind # "cddafile" THEN 1 ELSE n

\* checkLBN: 0 for an absent "@", the number when it is in range; the
\* range test is TRUE when the parser throws.
checkLBNThrows(lbn) == lbn # 0 /\ (lbn <= ISO_EVD_SECTOR \/ lbn >= MAX_ISO_SECTORS)

\* FileNode::FileNode; a name is the number of the entry it names.
FileNode(name, kind, parent, lbn, size, nodeSize) ==
    [name |-> name, kind |-> kind, parent |-> parent, requestedStartSector |-> lbn,
     firstSector |-> 0, numSectors |-> FileNumSectors(kind, size),
     size |-> size, nodeSize |-> nodeSize, nodeSizeOriginal |-> nodeSize,
     nameLen |-> NameLen, recordSize |-> 0]

\* DirNode::DirNode
DirNode(name, parent, lbn, nameLen) ==
    [name |-> name, kind |-> "dir", parent |-> parent, requestedStartSector |-> lbn,
     firstSector |-> 0, numSectors |-> 0,
     size |-> 0, nodeSize |-> 0, nodeSizeOriginal |-> 0,
     nameLen |-> nameLen, recordSize |-> 0]

\* ------------------------------------------------------------ inputs

\* The file, xafile and cddafile lines a catalog may hold: the keyword,
\* the "@" number (0 when absent), the size of the host file and the SIZE
\* attribute.
FileLines ==
    { [kind |-> "file", lbn |-> 0, size |-> 2048, nodeSize |-> 2048],
      [kind |-> "file", lbn |-> 17, size |-> 2048, nodeSize |-> 2048],
      [kind |-> "file", lbn |-> 18, size |-> 2048, nodeSize |-> 2048],
      [kind |-> "file", lbn |-> 23, size |-> 6144, nodeSize |-> 6144],
      [kind |-> "file", lbn |-> 24, size |-> 0, nodeSize |-> 0],
      [kind |-> "file", lbn |-> 26, size |-> 2048, nodeSize |-> 2048],
      [kind |-> "file", lbn |-> 332999, size |-> 4096, nodeSize |-> 4096],
      [kind |-> "xafile", lbn |-> 25, size |-> 4672, nodeSize |-> 2048],
      [kind |-> "xafile", lbn |-> 0, size |-> 0, nodeSize |-> 0],
      [kind |-> "cddafile", lbn |-> 600, size |-> 0, nodeSize |-> 0],
      [kind |-> "cddafile", lbn |-> 0, size |-> 0, nodeSize |-> 0] }

\* The "@" numbers of the sub-directory lines.
DirLBNs == {0, 23}

\* The track1_sector_count values of the volume section: one below and one
\* above every rebuilt track 1 that holds no entry at the end of the disc.
Track1Counts == {170, 400}

\* ------------------------------------------------------------ state

VARIABLES
    pc,                      \* position of main
    nodes,                   \* the tree, in catalog order
    open,                    \* parseDir recursion: the open directories
    volSeen,                 \* a volume section was parsed
    strictRebuild,
    track1SectorCount,
    tracks,                  \* parseTracksFromString(track_listing)
    audioSectors,
    currentSector,           \* AllocSectors::currentSector
    ai,                      \* next node of the traversal of AllocSectors
    flatList,                \* node indices, as sorted for the strict rebuild
    overflowFiles,           \* AllocSectors::overflowFiles
    warned,                  \* nodes a warning was printed for
    volumeSize,
    sizeWarning,             \* the "larger than" warning was printed
    track1SectorCountOffset,
    imagePos,                \* sectors written to the image file so far
    runs,                    \* the sectors written, as runs
    cue,                     \* the INDEX lines of the generated .cue
    volumeDesc,              \* the primary volume descriptor written
    img,                     \* the image psxrip reads
    ripMode,                 \* "none", "l" (--lbns) or "s" (--strict)
    catalog,                 \* the lines psxrip wrote, not yet parsed
    item,                    \* the value psxrip prints (a date, a catalog line)
    text,                    \* its text in the catalog
    parsed                   \* what psxbuild's parser made of the text

vars == <<pc, nodes, open, volSeen, strictRebuild, track1SectorCount, tracks,
          audioSectors,
          currentSector, ai, flatList, overflowFiles, warned, volumeSize, sizeWarning,
          track1SectorCountOffset, imagePos, runs, cue, volumeDesc, img, ripMode,
          catalog,
          item, text, parsed>>

parseVars == <<nodes, open, volSeen, strictRebuild, track1SectorCount, tracks,
               audioSectors>>
allocVars == <<currentSector, ai, flatList, overflowFiles, warned, volumeSize, sizeWarning,
               track1SectorCountOffset>>
writeVars == <<imagePos, runs, cue, volumeDesc>>
ripVars == <<img, ripMode, catalog>>
catVars == <<item, text, parsed>>

NoImage == [root |-> 0, track1 |-> 0, entries |-> <<>>]

\* Sectors of the audio track of the listing, its pregap included.
AudioTrackSectors == 1000

\* The track listing psxrip records for a disc whose track 1 has t1 sectors
\* and which has one audio track with a pregap after it.
TrackListing(t1) ==
    << [trackNumber |-> 1, trackType |-> "MODE2/2352", startSector |-> 0,
        pregapSectors |-> 0, dataOffset |-> 0, totalSectors |-> t1],
       [trackNumber |-> 2, trackType |-> "AUDIO", startSector |-> t1,
        pregapSectors |-> 150, dataOffset |-> t1 + 150,
        totalSectors |-> AudioTrackSectors] >>

\* audio_sectors as psxrip counts it: the sectors of the audio tracks.
AudioSectorsOf(trk) ==
    SeqSum([i \in 1..Len(trk) |->
              IF trk[i].trackType = "AUDIO" THEN trk[i].totalSectors ELSE 0])

BuildIdle ==
    /\ nodes = <<>>
    /\ open = <<>>
    /\ volSeen = FALSE
    /\ strictRebuild = 0
    /\ track1SectorCount = 0
    /\ tracks = <<>>
    /\ audioSectors = 0
    /\ currentSector = rootDirStartSector
    /\ ai = 1
    /\ flatList = <<>>
    /\ overflowFiles = <<>>
    /\ warned = {}
    /\ volumeSize = 0
    /\ sizeWarning = FALSE
    /\ track1SectorCountOffset = 0
    /\ imagePos = 0
    /\ runs = <<>>
    /\ cue = <<>>
    /\ volumeDesc = [volume_space_size |-> 0]

BuildInit == pc = "parse" /\ BuildIdle

NoItem == [what |-> "none"]
NoParse == [ok |-> FALSE]

CatIdle ==
    /\ item = NoItem
    /\ text = <<>>
    /\ parsed = NoParse

Init ==
    /\ BuildInit
    /\ img = NoImage
    /\ ripMode = "none"
    /\ catalog = <<>>
    /\ CatIdle

\* ------------------------------------------------------------ parseCatalog

\* parseVolume: the strict_rebuild, track1_sector_count and track_listing
\* lines of a volume section.
parseVolume(strict, t1) ==
    /\ volSeen' = TRUE
    /\ strictRebuild' = strict
    /\ track1SectorCount' = t1
    /\ tracks' = TrackListing(t1)
    /\ audioSectors' = AudioSectorsOf(TrackListing(t1))
    /\ UNCHANGED <<pc, nodes, open>>

parseRootDir_Replaces ==
    /\ nodes' = <<DirNode(0, 0, 0, 0)>>
    /\ open' = <<1>>
    /\ UNCHANGED <<pc, volSeen, strictRebuild, track1SectorCount, tracks,
                   audioSectors>>

\* parseCatalog, root "dir ... {" line: a second one throws "More than one
\* root directory section"; the first creates the root, with start sector 0
\* whatever the line's "@" says.
parseRootDir ==
    /\ IF nodes # <<>>
         THEN pc' = "aborted" /\ nodes' = nodes /\ open' = open
         ELSE /\ pc' = pc
              /\ nodes' = <<DirNode(0, 0, 0, 0)>>
              /\ open' = <<1>>
    /\ UNCHANGED <<volSeen, strictRebuild, track1SectorCount, tracks, audioSectors>>

\* parseDir, file / xafile / cddafile line.
parseFileLine(name, ln) ==
    /\ IF checkLBNThrows(ln.lbn)
         THEN pc' = "aborted" /\ nodes' = nodes
         ELSE /\ pc' = pc
              /\ nodes' = Append(nodes,
                   FileNode(name, ln.kind, open[Len(open)], ln.lbn, ln.size, ln.nodeSize))
    /\ UNCHANGED <<open, volSeen, strictRebuild, track1SectorCount, tracks,
                   audioSectors>>

\* parseDir, "dir NAME ... {" line: recursion into the sub-directory.
parseDirStart(name, lbn) ==
    /\ IF checkLBNThrows(lbn)
         THEN pc' = "aborted" /\ nodes' = nodes /\ open' = open
         ELSE /\ pc' = pc
              /\ nodes' = Append(nodes, DirNode(name, open[Len(open)], lbn, NameLen))
              /\ open' = Append(open, Len(nodes) + 1)
    /\ UNCHANGED <<volSeen, strictRebuild, track1SectorCount, tracks, audioSectors>>

\* parseDir, "}" line.
parseDirEnd ==
    /\ open' = SubSeq(open, 1, Len(open) - 1)
    /\ UNCHANGED <<pc, nodes, volSeen, strictRebuild, track1SectorCount, tracks,
                   audioSectors>>

\* parseCatalog at the end of the file, and the root check of main.
parseEnd ==
    /\ pc' = IF nodes = <<>> THEN "aborted" ELSE "calcdir"
    /\ UNCHANGED parseVars

AtTopLevel == pc = "parse" /\ open = <<>>
InDir == pc = "parse" /\ open # <<>>

ParseVolume ==
    /\ AtTopLevel /\ ~volSeen /\ nodes = <<>>
    /\ \E strict \in {0, 1}, t1 \in Track1Counts : parseVolume(strict, t1)
    /\ UNCHANGED <<allocVars, writeVars, ripVars, catVars>>

ParseRootDir ==
    /\ AtTopLevel /\ volSeen
    /\ parseRootDir
    /\ UNCHANGED <<allocVars, writeVars, ripVars, catVars>>

ParseFileLine ==
    /\ InDir /\ Len(nodes) <= MaxNodes
    /\ \E ln \in FileLines : parseFileLine(Len(nodes), ln)
    /\ UNCHANGED <<allocVars, writeVars, ripVars, catVars>>

ParseDirStart ==
    /\ InDir /\ Len(nodes) <= MaxNodes
    /\ \E lbn \in DirLBNs : parseDirStart(Len(nodes), lbn)
    /\ UNCHANGED <<allocVars, writeVars, ripVars, catVars>>

ParseDirEnd ==
    /\ InDir
    /\ parseDirEnd
    /\ UNCHANGED <<allocVars, writeVars, ripVars, catVars>>

ParseEnd ==
    /\ AtTopLevel /\ volSeen
    /\ parseEnd
    /\ UNCHANGED <<allocVars, writeVars, ripVars, catVars>>

\* ------------------------------------------------------------ CalcDirSize

\* iso9660_dir_calc_record_size(namelen, sizeof(iso9660_xa_t)).
dirRecordSize(namelen) ==
    LET a == ISO_DIR_HEADER + namelen
        b == (IF a % 2 = 1 THEN a + 1 ELSE a) + XA_SU_LEN
    IN IF b % 2 = 1 THEN b + 1 ELSE b

\* The loop of CalcDirSize::visit over the name lengths of the children.
RECURSIVE dirSizeLoop(_, _)
dirSizeLoop(size, lens) ==
    IF lens = <<>> THEN size
    ELSE LET rec == dirRecordSize(Head(lens))
             padded == IF size \div ISO_BLOCKSIZE # (size + rec) \div ISO_BLOCKSIZE
                         THEN rec + ((ISO_BLOCKSIZE - size) % ISO_BLOCKSIZE)
                         ELSE rec
         IN dirSizeLoop(size + padded, Tail(lens))

ChildrenOf(ns, d) ==
    LET idx == {j \in 1..Len(ns) : ns[j].parent = d}
        RECURSIVE asSeq(_, _)
        asSeq(j, acc) == IF j > Len(ns) THEN acc
                         ELSE asSeq(j + 1, IF j \in idx THEN Append(acc, j) ELSE acc)
    IN asSeq(1, <<>>)

\* CalcDirSize::visit(DirNode &): the sector count of directory d.
CalcDirSize(ns, d) ==
    LET kids == ChildrenOf(ns, d)
        lens == [k \in 1..Len(kids) |-> ns[kids[k]].nameLen]
        size == dirSizeLoop(dirRecordSize(1) + dirRecordSize(1), lens)
    IN CeilDiv(size, ISO_BLOCKSIZE)

\* cat.root->traverseSorted(calcDir)
CalcDirSizes ==
    /\ pc = "calcdir"
    /\ nodes' = [i \in 1..Len(nodes) |->
                   IF IsDir(nodes[i])
                     THEN [nodes[i] EXCEPT !.numSectors = CalcDirSize(nodes, i)]
                     ELSE nodes[i]]
    /\ pc' = "alloc"
    /\ UNCHANGED <<open, volSeen, strictRebuild, track1SectorCount, tracks,
                   audioSectors, allocVars, writeVars, ripVars, catVars>>

\* ------------------------------------------------------------ AllocSectors

\* AllocSectors::visitNode: whether the request of the node is heeded.
visitNodeRequested(n) == n.requestedStartSector # 0 /\ ~IsAudio(n)

visitNodeWarns_AtEquality(n, cur) ==
    visitNodeRequested(n) /\ n.requestedStartSector <= cur

\* AllocSectors::visitNode: the warning branch.
visitNodeWarns(n, cur) == visitNodeRequested(n) /\ n.requestedStartSector < cur

visitNodeFirstSector_AsRequested(n, cur) ==
    IF visitNodeRequested(n) THEN n.requestedStartSector ELSE cur

\* AllocSectors::visitNode: the first sector the node gets.
visitNodeFirstSector(n, cur) ==
    IF visitNodeRequested(n)
      THEN IF n.requestedStartSector < cur THEN cur ELSE n.requestedStartSector
      ELSE cur

visitNodeNext_Reserved(n, cur) ==
    visitNodeFirstSector(n, cur)
      + (IF IsFile(n) /\ n.numSectors > CeilDiv(n.nodeSizeOriginal, ISO_BLOCKSIZE)
           THEN CeilDiv(n.nodeSizeOriginal, ISO_BLOCKSIZE)
           ELSE n.numSectors)

\* AllocSectors::visitNode: the cursor after the node.
visitNodeNext(n, cur) == visitNodeFirstSector(n, cur) + n.numSectors

\* cat.root->traverse(alloc), one node of the pre-order traversal.
AllocVisit ==
    /\ pc = "alloc" /\ strictRebuild # 1 /\ ai <= Len(nodes)
    /\ nodes' = [nodes EXCEPT ![ai].firstSector =
                                 visitNodeFirstSector(nodes[ai], currentSector)]
    /\ warned' = IF visitNodeWarns(nodes[ai], currentSector)
                   THEN warned \cup {ai} ELSE warned
    /\ currentSector' = visitNodeNext(nodes[ai], currentSector)
    /\ ai' = ai + 1
    /\ pc' = IF ai = Len(nodes) THEN "allocated" ELSE "alloc"
    /\ UNCHANGED <<open, volSeen, strictRebuild, track1SectorCount, tracks,
                   audioSectors, flatList, overflowFiles, volumeSize, sizeWarning,
                   track1SectorCountOffset, writeVars, ripVars, catVars>>

\* The orders std::sort may leave a list in: every permutation of the
\* indices in which the requested start sectors do not decrease.
SortedByRequest(ns) ==
    LET n == Len(ns)
    IN { p \in [1..n -> 1..n] :
           /\ \A i, j \in 1..n : i # j => p[i] # p[j]
           /\ \A i \in 1..n - 1 :
                ns[p[i]].requestedStartSector <= ns[p[i + 1]].requestedStartSector }

\* flattenTree and the first std::sort of the strict rebuild.
FlattenAndSort ==
    /\ pc = "alloc" /\ strictRebuild = 1
    /\ \E p \in SortedByRequest(nodes) : flatList' = p
    /\ pc' = "strict_allocate"
    /\ UNCHANGED <<parseVars, currentSector, ai, overflowFiles, warned, volumeSize, sizeWarning,
                   track1SectorCountOffset, writeVars, ripVars, catVars>>

\* AllocSectors::allocate: does the host file need more sectors than the
\* SIZE of the catalog reserves?
isOverflow(n) ==
    /\ IsFile(n)
    /\ CeilDiv(n.size, BlockSize(n)) > CeilDiv(n.nodeSizeOriginal, ISO_BLOCKSIZE)

allocateFirstSector_AtCursor(n, cur) == cur

\* AllocSectors::allocate: the first sector of a node that is placed.
allocateFirstSector(n, cur) ==
    IF n.requestedStartSector # 0 THEN n.requestedStartSector ELSE cur

\* AllocSectors::allocate: the loop over the flat list.
RECURSIVE allocate(_, _, _, _)
allocate(fl, ns, cur, ovf) ==
    IF fl = <<>> THEN [nodes |-> ns, currentSector |-> cur, overflowFiles |-> ovf]
    ELSE LET i == Head(fl)
             n == ns[i]
         IN IF IsFile(n) /\ IsAudio(n)
              THEN allocate(Tail(fl), ns, cur, ovf)
            ELSE IF isOverflow(n)
              THEN allocate(Tail(fl), ns, cur, Append(ovf, i))
            ELSE LET fs == allocateFirstSector(n, cur)
                 IN allocate(Tail(fl), [ns EXCEPT ![i].firstSector = fs],
                             fs + n.numSectors, ovf)

\* alloc.allocate(flatList)
StrictAllocate ==
    /\ pc = "strict_allocate"
    /\ LET r == allocate(flatList, nodes, currentSector, overflowFiles)
       IN /\ nodes' = r.nodes
          /\ currentSector' = r.currentSector
          /\ overflowFiles' = r.overflowFiles
    /\ pc' = "strict_overflow"
    /\ UNCHANGED <<open, volSeen, strictRebuild, track1SectorCount, tracks,
                   audioSectors, ai, flatList, warned, volumeSize, sizeWarning,
                   track1SectorCountOffset, writeVars, ripVars, catVars>>

\* AllocSectors::allocateOverflowFiles: the loop over the overflow list.
RECURSIVE allocateOverflowFiles(_, _, _)
allocateOverflowFiles(ovf, ns, cur) ==
    IF ovf = <<>> THEN [nodes |-> ns, currentSector |-> cur]
    ELSE LET i == Head(ovf)
             overflowSectors == CeilDiv(ns[i].size, BlockSize(ns[i]))
         IN allocateOverflowFiles(Tail(ovf),
               [ns EXCEPT ![i].requestedStartSector = cur,
                          ![i].firstSector = cur,
                          ![i].numSectors = overflowSectors],
               cur + overflowSectors)

\* alloc.allocateOverflowFiles() and the second std::sort.
StrictOverflow ==
    /\ pc = "strict_overflow"
    /\ LET r == allocateOverflowFiles(overflowFiles, nodes, currentSector)
       IN /\ nodes' = r.nodes
          /\ currentSector' = r.currentSector
          /\ \E p \in SortedByRequest(r.nodes) : flatList' = p
    /\ pc' = "allocated"
    /\ UNCHANGED <<open, volSeen, strictRebuild, track1SectorCount, tracks,
                   audioSectors, ai, overflowFiles, warned, volumeSize, sizeWarning,
                   track1SectorCountOffset, writeVars, ripVars, catVars>>

\* main: track1SectorCountOffset from the allocator's cursor.
track1Offset(cur, t1) == (cur + PostgapSectors) - t1

totalVolumeSize_NoPostgap(cur, audio) == cur + audio

\* main: the cursor, the 150 postgap sectors of track 1 and the audio sectors.
totalVolumeSize(cur, audio) == (cur + PostgapSectors) + audio

\* main: volumeSize and track1SectorCountOffset from the allocator's cursor,
\* and the warning for an image that is larger than 74 minutes.
ComputeVolumeSize ==
    /\ pc = "allocated"
    /\ track1SectorCountOffset' = track1Offset(currentSector, track1SectorCount)
    /\ volumeSize' = totalVolumeSize(currentSector, audioSectors)
    /\ sizeWarning' = (totalVolumeSize(currentSector, audioSectors) > MAX_ISO_SECTORS)
    /\ pc' = "makedirs"
    /\ UNCHANGED <<parseVars, currentSector, ai, flatList, overflowFiles, warned,
                   writeVars, ripVars, catVars>>

\* ------------------------------------------------------------ MakeDirectories

audioFirstSector_NoOffset(n, offset) == n.requestedStartSector

\* MakeDirectories::visit: the first sector stored for an audio reference.
\* The sum is a uint32_t; a negative number stands for the value it wraps
\* to, that number + 2^32.
audioFirstSector(n, offset) == n.requestedStartSector + offset

entrySize_HostSize(n) == n.size

\* MakeDirectories::visit: the size stored in the directory record of a
\* node: the sectors of the extent times 2048 for a directory and a Form-2
\* file, the SIZE attribute for an audio reference, the host file size for
\* a Form-1 file.
entrySize(n) ==
    IF IsAudio(n) THEN n.nodeSize
    ELSE IF IsDir(n) \/ IsForm2(n) THEN n.numSectors * ISO_BLOCKSIZE
    ELSE n.size

\* cat.root->traverseSorted(makeDirs): every directory is visited, and every
\* node is the child of one (the root is its own parent): the records get
\* their sizes and the audio references their sectors.
MakeDirectories ==
    /\ pc = "makedirs"
    /\ nodes' = [i \in 1..Len(nodes) |->
                   IF IsAudio(nodes[i]) /\ nodes[i].parent # 0
                     THEN [nodes[i] EXCEPT !.firstSector =
                             audioFirstSector(nodes[i], track1SectorCountOffset),
                                           !.recordSize = entrySize(nodes[i])]
                     ELSE [nodes[i] EXCEPT !.recordSize = entrySize(nodes[i])]]
    /\ pc' = "write_system"
    /\ UNCHANGED <<open, volSeen, strictRebuild, track1SectorCount, tracks,
                   audioSectors, allocVars, writeVars, ripVars, catVars>>

\* ------------------------------------------------------------ image writing

\* A run of sectors of the image file: len sectors from file position pos
\* (counted in sectors); the first one carries header address hdr and the
\* address grows by one per sector.  Raw audio sectors have no header
\* (hdr = -1).
Run(what, node, pos, hdr, len) ==
    [what |-> what, node |-> node, pos |-> pos, hdr |-> hdr, len |-> len]

\* writeSystemArea: the 16 sectors of the system area.
WriteSystemArea ==
    /\ pc = "write_system"
    /\ runs' = Append(runs, Run("system", 0, imagePos, 0, numSystemSectors))
    /\ imagePos' = imagePos + numSystemSectors
    /\ cue' = cue /\ volumeDesc' = volumeDesc
    /\ pc' = "write_descriptors"
    /\ UNCHANGED <<parseVars, allocVars, ripVars, catVars>>

\* main: PVD, volume descriptor set terminator and the four path tables.
descriptorRuns(pos) ==
    << Run("pvd", 0, pos, pvdSector, 1),
       Run("evd", 0, pos + 1, evdSector, 1),
       Run("ptable", 0, pos + 2, pathTableStartSector + numPathTableSectors * 0, 1),
       Run("ptable", 0, pos + 3, pathTableStartSector + numPathTableSectors * 1, 1),
       Run("ptable", 0, pos + 4, pathTableStartSector + numPathTableSectors * 2, 1),
       Run("ptable", 0, pos + 5, pathTableStartSector + numPathTableSectors * 3, 1) >>

\* iso9660_set_pvd: the volume space size of the descriptor is the size
\* main passes.
iso9660_set_pvd(iso_size) == [volume_space_size |-> iso_size]

WriteDescriptors ==
    /\ pc = "write_descriptors"
    /\ runs' = runs \o descriptorRuns(imagePos)
    /\ imagePos' = imagePos + Len(descriptorRuns(imagePos))
    /\ volumeDesc' = iso9660_set_pvd(volumeSize)
    /\ cue' = cue
    /\ pc' = "write_data"
    /\ UNCHANGED <<parseVars, allocVars, ripVars, catVars>>

\* WriteData::writeGap followed by the sector loop of WriteData::visit, for
\* node i.  w = [cur: WriteData::currentSector, pos: file position, runs].
writeNode(ns, i, w) ==
    IF IsFile(ns[i]) /\ IsAudio(ns[i]) THEN w
    ELSE LET until == ns[i].firstSector
             gap == IF w.cur < until THEN until - w.cur ELSE 0
             g == IF gap > 0
                    THEN [cur |-> w.cur + gap, pos |-> w.pos + gap,
                          runs |-> Append(w.runs, Run("gap", 0, w.pos, w.cur, gap))]
                    ELSE w
         IN [cur |-> g.cur + ns[i].numSectors,
             pos |-> g.pos + ns[i].numSectors,
             runs |-> Append(g.runs, Run("extent", i, g.pos, g.cur, ns[i].numSectors))]

\* WriteData::writeFromFlatList, and root->traverse(writeData) given as the
\* list of the nodes in pre-order.
RECURSIVE writeFromFlatList(_, _, _)
writeFromFlatList(order, ns, w) ==
    IF order = <<>> THEN w
    ELSE writeFromFlatList(Tail(order), ns, writeNode(ns, Head(order), w))

preOrder_Reversed(ns) == [i \in 1..Len(ns) |-> Len(ns) + 1 - i]

\* FSNode::traverse: the nodes in pre-order, the order of the catalog.
preOrder(ns) == [i \in 1..Len(ns) |-> i]

WriteData ==
    /\ pc = "write_data"
    /\ LET order == IF strictRebuild = 1 THEN flatList ELSE preOrder(nodes)
           w == writeFromFlatList(order, nodes,
                   [cur |-> rootDirStartSector, pos |-> imagePos, runs |-> runs])
       IN /\ runs' = w.runs
          /\ imagePos' = w.pos
    /\ cue' = cue /\ volumeDesc' = volumeDesc
    /\ pc' = "write_postgap"
    /\ UNCHANGED <<parseVars, allocVars, ripVars, catVars>>

\* main: the 150 postgap sectors, addressed from the cursor of the allocator.
WritePostgap ==
    /\ pc = "write_postgap"
    /\ runs' = Append(runs, Run("postgap", 0, imagePos, currentSector, PostgapSectors))
    /\ imagePos' = imagePos + PostgapSectors
    /\ cue' = cue /\ volumeDesc' = volumeDesc
    /\ pc' = "write_audio"
    /\ UNCHANGED <<parseVars, allocVars, ripVars, catVars>>

\* writeAudioTracks: the samples of the pregap and track WAV files.
WriteAudioTracks ==
    /\ pc = "write_audio"
    /\ runs' = Append(runs, Run("audio", 0, imagePos, -1, AudioSectorsOf(tracks)))
    /\ imagePos' = imagePos + AudioSectorsOf(tracks)
    /\ cue' = cue /\ volumeDesc' = volumeDesc
    /\ pc' = "write_cue"
    /\ UNCHANGED <<parseVars, allocVars, ripVars, catVars>>

\* generateCueFile: the offset added to the positions of tracks 2..N.
cueOffset(strict, offset) ==
    IF strict = 1 THEN (IF offset > 0 THEN offset ELSE 0) ELSE offset

\* generateCueFile: the INDEX lines of one track.
cueTrack(track, offset) ==
    [trackNumber |-> track.trackNumber,
     hasIndex00 |-> track.pregapSectors > 0,
     index00 |-> IF track.trackNumber = 1 THEN track.startSector
                 ELSE track.startSector + offset,
     index01 |-> IF track.trackNumber = 1 THEN track.dataOffset
                 ELSE track.dataOffset + offset]

GenerateCue ==
    /\ pc = "write_cue"
    /\ cue' = [k \in 1..Len(tracks) |->
                 cueTrack(tracks[k], cueOffset(strictRebuild, track1SectorCountOffset))]
    /\ pc' = "done"
    /\ UNCHANGED <<parseVars, allocVars, imagePos, runs, volumeDesc, ripVars, catVars>>

\* ------------------------------------------------------------ psxbuild

Build ==
    \/ CalcDirSizes
    \/ AllocVisit
    \/ FlattenAndSort
    \/ StrictAllocate
    \/ StrictOverflow
    \/ ComputeVolumeSize
    \/ MakeDirectories
    \/ WriteSystemArea
    \/ WriteDescriptors
    \/ WriteData
    \/ WritePostgap
    \/ WriteAudioTracks
    \/ GenerateCue

Next ==
    \/ ParseVolume
    \/ ParseRootDir
    \/ ParseFileLine
    \/ ParseDirStart
    \/ ParseDirEnd
    \/ ParseEnd
    \/ Build

Spec == Init /\ [][Next]_vars

\* main: the catch block returns 1, the end of main 0.
exitCode == IF pc = "aborted" THEN 1 ELSE 0

\* ------------------------------------------------------------ images

\* What a directory record of an image can describe: the kind of the entry,
\* the byte size of the record and the number of sectors of the extent.
ImgShapes ==
    { [kind |-> "file", size |-> 2048, secsize |-> 1],
      [kind |-> "file", size |-> 2049, secsize |-> 2],
      [kind |-> "file", size |-> 0, secsize |-> 0],
      [kind |-> "xafile", size |-> 2048, secsize |-> 1],
      [kind |-> "dir", size |-> 2048, secsize |-> 1],
      [kind |-> "cddafile", size |-> 0, secsize |-> 0] }

\* The sectors at which the extents of an image start.
ImgLSNs == (rootDirStartSector + 1)..(rootDirStartSector + MaxImgNodes)

\* The layouts of the images: where the root directory lies and how many
\* sectors follow the 150 postgap sectors before track 1 ends.
ImgLayouts == { [root |-> rootDirStartSector, pad |-> 0],
                [root |-> rootDirStartSector + 1, pad |-> 0],
                [root |-> rootDirStartSector, pad |-> 1] }

ImgEntry(shape, lsn, parent) ==
    [kind |-> shape.kind, size |-> shape.size, secsize |-> shape.secsize,
     lsn |-> lsn, parent |-> parent]

ImgEnd(e) == e.lsn + e.secsize

\* The entries that may follow the entries es of an image whose root is at
\* sector root: extents are listed by ascending sector and do not overlap;
\* the audio references come last and get their sector with the track.
ImgNextEntries(es, root) ==
    LET free == IF es = <<>> THEN root + 1 ELSE ImgEnd(es[Len(es)])
        audio == es # <<>> /\ es[Len(es)].kind = "cddafile"
        shapes == {x \in ImgShapes : audio => x.kind = "cddafile"}
        lsns(sh) == IF sh.kind = "cddafile" THEN {0}
                    ELSE {x \in ImgLSNs : x >= free}
        me == Len(es) + 1
        parents == {0} \cup {j \in 1..Len(es) : es[j].kind = "dir"}
                       \cup (me + 1)..MaxImgNodes
    IN UNION { { ImgEntry(sh, l, par) : l \in lsns(sh), par \in parents } :
               sh \in shapes }

RECURSIVE ImgEntryLists(_, _)
ImgEntryLists(n, root) ==
    IF n = 0 THEN {<<>>}
    ELSE LET shorter == ImgEntryLists(n - 1, root)
         IN shorter \cup
            UNION { { Append(es, e) : e \in ImgNextEntries(es, root) } :
                    es \in {x \in shorter : Len(x) = n - 1} }

\* Every entry lies in the root (parent 0) or in a directory entry, and the
\* directories form a tree.
RECURSIVE ImgDepthOk(_, _, _)
ImgDepthOk(es, i, fuel) ==
    IF es[i].parent = 0 THEN TRUE
    ELSE /\ fuel > 0
         /\ es[i].parent \in 1..Len(es)
         /\ es[i].parent # i
         /\ es[es[i].parent].kind = "dir"
         /\ ImgDepthOk(es, es[i].parent, fuel - 1)

ImgTreeOk(es) == \A i \in 1..Len(es) : ImgDepthOk(es, i, Len(es))

\* The end of the last extent of the image.
ImgLastEnd(es, root) ==
    LET ends == {root + 1} \cup {ImgEnd(es[i]) : i \in 1..Len(es)}
    IN CHOOSE m \in ends : \A x \in ends : x <= m

\* An image: track 1 ends 150 (+ pad) sectors after its last extent, and the
\* audio references point at the first sector after the pregap of track 2.
MkImage(es, layout) ==
    LET t1 == ImgLastEnd(es, layout.root) + PostgapSectors + layout.pad
    IN [root |-> layout.root,
        track1 |-> t1,
        entries |-> [i \in 1..Len(es) |->
                       IF es[i].kind = "cddafile"
                         THEN [es[i] EXCEPT !.lsn = t1 + PostgapSectors]
                         ELSE es[i]]]

\* The images of at most n entries.
Images(n) ==
    UNION { { MkImage(es, layout) :
                es \in {x \in ImgEntryLists(n, layout.root) : ImgTreeOk(x)} } :
            layout \in ImgLayouts }

\* ------------------------------------------------------------ psxrip

\* The orders std::sort with CmpByLSN may leave the entries in.
SortedByLSN(es) ==
    LET n == Len(es)
    IN { p \in [1..n -> 1..n] :
           /\ \A i, j \in 1..n : i # j => p[i] # p[j]
           /\ \A i \in 1..n - 1 : es[p[i]].lsn <= es[p[i + 1]].lsn }

\* dumpFilesystem, the copy loop: the size of the file written to the host.
hostFileSize(e) ==
    LET form2File == e.kind = "xafile"
        blockSize == IF form2File THEN M2RAW_SECTOR_SIZE ELSE ISO_BLOCKSIZE
        fileSize == IF form2File THEN e.secsize * blockSize ELSE e.size
        copied == IF e.kind = "cddafile" THEN 0 ELSE e.secsize * blockSize
    IN IF fileSize < copied THEN fileSize ELSE copied

\* dumpFilesystem: the catalog record of a file; the "@" number is written
\* with --lbns and for every audio reference.
ripFileLine(i, e, writeLBNs) ==
    [type |-> "file", name |-> i,
     ln |-> [kind |-> e.kind,
             lbn |-> IF writeLBNs \/ e.kind = "cddafile" THEN e.lsn ELSE 0,
             size |-> hostFileSize(e), nodeSize |-> e.size]]

\* dumpFilesystem: the "dir NAME ... {" line of a sub-directory.
ripDirLine(i, e, writeLBNs) ==
    [type |-> "dir", name |-> i, lbn |-> IF writeLBNs THEN e.lsn ELSE 0]

\* dumpFilesystem: the records of the entries of directory dir, which are
\* those of order[k..] that lie in it, a sub-directory with its own records.
RECURSIVE dumpFilesystem(_, _, _, _, _)
dumpFilesystem(im, order, dir, k, writeLBNs) ==
    IF k > Len(order) THEN <<>>
    ELSE LET i == order[k]
             e == im.entries[i]
             rest == dumpFilesystem(im, order, dir, k + 1, writeLBNs)
         IN IF e.parent # dir THEN rest
            ELSE IF e.kind = "dir"
              THEN <<ripDirLine(i, e, writeLBNs)>>
                     \o dumpFilesystem(im, order, i, 1, writeLBNs)
                     \o <<[type |-> "end"]>> \o rest
            ELSE <<ripFileLine(i, e, writeLBNs)>> \o rest

\* dumpImage: the volume section, the root line and the file system.
dumpImage(im, order, mode) ==
    << [type |-> "volume", strict |-> IF mode = "s" THEN 1 ELSE 0,
        t1 |-> im.track1],
       [type |-> "root", lbn |-> IF mode # "p" THEN im.root ELSE 0] >>
    \o dumpFilesystem(im, order, 0, 1, mode # "p")
    \o <<[type |-> "end"]>>

\* psxrip: "p" without options, "l" with --lbns, "s" with --strict.
RipModes == {"p", "l", "s"}

Rip ==
    /\ pc = "parse" /\ ripMode = "none"
    /\ \E mode \in RipModes, order \in SortedByLSN(img.entries) :
          /\ ripMode' = mode
          /\ catalog' = dumpImage(img, order, mode)
    /\ UNCHANGED <<pc, parseVars, allocVars, writeVars, img, catVars>>

\* parseCatalog / parseDir reading the next line of the ripped catalog.
ReadCatalog ==
    /\ pc = "parse" /\ ripMode # "none"
    /\ IF catalog = <<>>
         THEN parseEnd /\ catalog' = catalog
         ELSE /\ catalog' = Tail(catalog)
              /\ LET line == Head(catalog)
                 IN CASE line.type = "volume" -> parseVolume(line.strict, line.t1)
                      [] line.type = "root" -> parseRootDir
                      [] line.type = "dir" -> parseDirStart(line.name, line.lbn)
                      [] line.type = "file" -> parseFileLine(line.name, line.ln)
                      [] line.type = "end" -> parseDirEnd
    /\ UNCHANGED <<allocVars, writeVars, img, ripMode, catVars>>

InitRT ==
    /\ BuildInit
    /\ img \in Images(MaxImgNodes)
    /\ ripMode = "none"
    /\ catalog = <<>>
    /\ CatIdle

NextRT ==
    \/ Rip
    \/ ReadCatalog
    \/ Build

SpecRT == InitRT /\ [][NextRT]_vars

\* ------------------------------------------------------------ catalog text

\* A text is a sequence of characters.
DigitChars == <<"0", "1", "2", "3", "4", "5", "6", "7", "8", "9">>
IsDigit(c) == \E d \in 1..10 : DigitChars[d] = c
DigitVal(c) == (CHOOSE d \in 1..10 : DigitChars[d] = c) - 1
IsDigits(s) == Len(s) >= 1 /\ \A k \in 1..Len(s) : IsDigit(s[k])

RECURSIVE NatToStr(_)
NatToStr(n) ==
    IF n < 10 THEN <<DigitChars[n + 1]>>
    ELSE NatToStr(n \div 10) \o <<DigitChars[(n % 10) + 1]>>

\* std::to_string(int) and the "{}" of std::format for an int.
to_string(n) == IF n < 0 THEN <<"-">> \o NatToStr(0 - n) ELSE NatToStr(n)

RECURSIVE StrToNat(_)
StrToNat(s) ==
    IF s = <<>> THEN 0
    ELSE StrToNat(SubSeq(s, 1, Len(s) - 1)) * 10 + DigitVal(s[Len(s)])

\* The quarter-hours of a GMT offset: 48 west to 52 east.
GmtWest == 48
GmtEast == 52
GmtOffsets == (0 - GmtWest)..GmtEast

\* The largest value of the int8 field lt_gmtoff.
Int8Max == 127

\* The 16 digits of a long-format date: year, month, day, hour, minute,
\* second, hundredths.
Dates ==
    { <<"1", "9", "9", "8", "1", "2", "3", "1", "2", "3", "5", "9", "5", "9", "0", "0">>,
      <<"0", "0", "0", "0", "0", "0", "0", "0", "0", "0", "0", "0", "0", "0", "0", "0">> }

\* What psxrip prints: a volume date, the attributes of a file line, the
\* attributes of a directory line.
Items ==
    { [what |-> "ltime", date |-> d, gmtoff |-> g, fixAllDates |-> f] :
        d \in Dates, g \in GmtOffsets, f \in BOOLEAN }
    \cup { [what |-> "file", timezone |-> z] : z \in GmtOffsets }
    \cup { [what |-> "dir", timezoneS |-> z, timezoneP |-> y] :
             z \in GmtOffsets, y \in {0 - GmtWest, 0, GmtEast} }

\* print_ltime: the century it prints.
printCentury(l) ==
    LET century == SubSeq(l.date, 1, 2)
        year == SubSeq(l.date, 3, 4)
        day == SubSeq(l.date, 7, 8)
    IN IF l.fixAllDates /\ (century = <<"0", "0">> \/ century = <<"1", "9">>)
          /\ StrToNat(day) >= 1
         THEN IF StrToNat(year) >= 70 THEN <<"1", "9">> ELSE <<"2", "0">>
         ELSE century

\* print_ltime: "YYYY-MM-DD hh:mm:ss.cc off".
print_ltime(l) ==
    printCentury(l) \o SubSeq(l.date, 3, 4) \o <<"-">> \o SubSeq(l.date, 5, 6)
      \o <<"-">> \o SubSeq(l.date, 7, 8) \o <<" ">> \o SubSeq(l.date, 9, 10)
      \o <<":">> \o SubSeq(l.date, 11, 12) \o <<":">> \o SubSeq(l.date, 13, 14)
      \o <<".">> \o SubSeq(l.date, 15, 16) \o <<" ">> \o to_string(l.gmtoff)

\* The number of white-space characters of s from position p on.
RECURSIVE Spaces(_, _)
Spaces(s, p) == IF p <= Len(s) /\ s[p] = " " THEN 1 + Spaces(s, p + 1) ELSE 0

DigitsAt(s, p, n) == p + n - 1 <= Len(s) /\ IsDigits(SubSeq(s, p, p + n - 1))
CharAt(s, p, c) == p <= Len(s) /\ s[p] = c

\* str_to_num into the int8 lt_gmtoff: from_chars must use up the text and
\* the value must fit.
str_to_num(s) ==
    IF IsDigits(s) /\ StrToNat(s) <= Int8Max
      THEN [ok |-> TRUE, value |-> StrToNat(s)]
      ELSE [ok |-> FALSE, value |-> 0]

\* parse_ltime: the match of timeSpec,
\* (\d{4})-(\d{2})-(\d{2})\s+(\d{2}):(\d{2}):(\d{2})\.(\d{2})\s+(\d+),
\* and the fields taken from it; ok is FALSE when it throws.
parse_ltime(s) ==
    LET w1 == Spaces(s, 11)
        t == 11 + w1
        w2 == Spaces(s, t + 11)
        o == t + 11 + w2
        matches ==
            /\ DigitsAt(s, 1, 4) /\ CharAt(s, 5, "-") /\ DigitsAt(s, 6, 2)
            /\ CharAt(s, 8, "-") /\ DigitsAt(s, 9, 2) /\ w1 >= 1
            /\ DigitsAt(s, t, 2) /\ CharAt(s, t + 2, ":") /\ DigitsAt(s, t + 3, 2)
            /\ CharAt(s, t + 5, ":") /\ DigitsAt(s, t + 6, 2)
            /\ CharAt(s, t + 8, ".") /\ DigitsAt(s, t + 9, 2) /\ w2 >= 1
            /\ o <= Len(s) /\ IsDigits(SubSeq(s, o, Len(s)))
    IN IF ~matches THEN NoParse
       ELSE LET off == str_to_num(SubSeq(s, o, Len(s)))
            IN IF ~off.ok THEN NoParse
               ELSE [ok |-> TRUE,
                     date |-> SubSeq(s, 1, 4) \o SubSeq(s, 6, 7) \o SubSeq(s, 9, 10)
                                \o SubSeq(s, t, t + 1) \o SubSeq(s, t + 3, t + 4)
                                \o SubSeq(s, t + 6, t + 7) \o SubSeq(s, t + 9, t + 10),
                     gmtoff |-> off.value]

\* An attribute of a catalog line: the keyword and the text after it.
Attr(key, val) == [key |-> key, val |-> val]

\* dumpFilesystem: the attributes of a file line; the zone is printed with
\* std::to_string.
ripFileAttrs(timezone) ==
    << Attr("GID", to_string(0)), Attr("UID", to_string(0)),
       Attr("ATR", to_string(0)), Attr("DATE", <<"0">>),
       Attr("TIMEZONE", to_string(timezone)), Attr("SIZE", to_string(ISO_BLOCKSIZE)),
       Attr("HIDDEN", to_string(0)), Attr("Y2KBUG", to_string(0)) >>

\* dumpFilesystem: the attributes of a directory line.
ripDirAttrs(timezoneS, timezoneP) ==
    << Attr("GID", to_string(0)), Attr("UID", to_string(0)),
       Attr("ATRS", to_string(0)), Attr("ATRP", to_string(0)),
       Attr("DATES", <<"0">>), Attr("DATEP", <<"0">>),
       Attr("TIMEZONES", to_string(timezoneS)),
       Attr("TIMEZONEP", to_string(timezoneP)),
       Attr("HIDDEN", to_string(0)), Attr("Y2KBUG", to_string(0)) >>

\* The optional groups "(?:\s*KEY(\d+))?" of fileSpec and of dirStart, in
\* the order of the expression.
fileSpec == <<"@", "GID", "UID", "ATR", "DATE", "TIMEZONE", "SIZE", "HIDDEN", "Y2KBUG">>
dirStart == <<"@", "GID", "UID", "ATRS", "ATRP", "DATES", "DATEP", "TIMEZONES",
              "TIMEZONEP", "HIDDEN", "Y2KBUG">>

regex_match_AnyOrder(attrs, groups, m) ==
    [ok |-> \A n \in 1..Len(attrs) :
               /\ \E j \in 1..Len(groups) : groups[j] = attrs[n].key
               /\ IsDigits(attrs[n].val),
     m |-> [k \in DOMAIN m |->
              IF \E n \in 1..Len(attrs) : attrs[n].key = k
                THEN attrs[CHOOSE n \in 1..Len(attrs) : attrs[n].key = k].val
                ELSE m[k]]]

\* regex_match of the attributes of a line against the groups: each group
\* takes the next attribute when the keyword is its own and the text is
\* digits (\d+, and \d* after DATES and DATEP), and is skipped otherwise;
\* the whole line must be used up.
RECURSIVE regex_match(_, _, _)
regex_match(attrs, groups, m) ==
    IF groups = <<>>
      THEN [ok |-> attrs = <<>>, m |-> m]
    ELSE IF attrs # <<>> /\ Head(attrs).key = Head(groups)
              /\ \/ IsDigits(Head(attrs).val)
                 \/ Head(groups) \in {"DATES", "DATEP"} /\ Head(attrs).val = <<>>
      THEN regex_match(Tail(attrs), Tail(groups),
                       [m EXCEPT ![Head(groups)] = Head(attrs).val])
    ELSE regex_match(attrs, Tail(groups), m)

NoCaptures(groups) == [g \in {groups[k] : k \in 1..Len(groups)} |-> <<>>]

\* The captures that are kept as text; the others go through std::stoi.
DateKeys == {"DATE", "DATES", "DATEP"}

\* The values a line gives a node: of each capture the text (dates), the
\* truth value (HIDDEN is a bool) or the number; read says whether the line's
\* attributes are read at all, and the LBN is read in either case.
attrValues(m, groups, read) ==
    [k \in {groups[j] : j \in 1..Len(groups)} |->
        IF k = "@" THEN StrToNat(m[k])
        ELSE IF ~read THEN (IF k \in DateKeys THEN <<>> ELSE 0)
        ELSE IF k \in DateKeys THEN m[k]
        ELSE IF k = "HIDDEN" THEN (IF StrToNat(m[k]) # 0 THEN 1 ELSE 0)
        ELSE StrToNat(m[k])]

\* parseDir, file line: a line no expression matches is a syntax error; the
\* attributes are read when GID, UID, ATR and DATE are all there, and std::stoi
\* throws on an empty capture; checkLBN throws on an LBN out of range.
parseFileAttrs(attrs) ==
    LET r == regex_match(attrs, fileSpec, NoCaptures(fileSpec))
        read == r.m["GID"] # <<>> /\ r.m["UID"] # <<>> /\ r.m["ATR"] # <<>>
                  /\ r.m["DATE"] # <<>>
        values == attrValues(r.m, fileSpec, read)
    IN IF ~r.ok THEN NoParse
       ELSE IF read /\ \E k \in {"TIMEZONE", "SIZE", "HIDDEN", "Y2KBUG"} : r.m[k] = <<>>
         THEN NoParse
       ELSE IF checkLBNThrows(values["@"]) THEN NoParse
       ELSE [ok |-> TRUE, timezone |-> values["TIMEZONE"], attr |-> values]

\* parseDir, sub-directory line: read when GID, UID, ATRS and ATRP are there.
parseDirAttrs(attrs) ==
    LET r == regex_match(attrs, dirStart, NoCaptures(dirStart))
        read == r.m["GID"] # <<>> /\ r.m["UID"] # <<>> /\ r.m["ATRS"] # <<>>
                  /\ r.m["ATRP"] # <<>>
        values == attrValues(r.m, dirStart, read)
    IN IF ~r.ok THEN NoParse
       ELSE IF read /\ \E k \in {"TIMEZONES", "TIMEZONEP", "HIDDEN", "Y2KBUG"} :
                          r.m[k] = <<>>
         THEN NoParse
       ELSE IF checkLBNThrows(values["@"]) THEN NoParse
       ELSE [ok |-> TRUE, timezoneS |-> values["TIMEZONES"],
             timezoneP |-> values["TIMEZONEP"], attr |-> values]

\* parseCatalog, root directory line: rootDirStart has the groups of
\* dirStart; std::stoi is applied to the captures whether they are there or
\* not, the LBN and HIDDEN are not read.
parseRootAttrs(attrs) ==
    LET r == regex_match(attrs, dirStart, NoCaptures(dirStart))
        values == attrValues(r.m, dirStart, TRUE)
    IN IF ~r.ok THEN NoParse
       ELSE IF \E k \in {"GID", "UID", "ATRS", "ATRP", "TIMEZONES", "TIMEZONEP",
                         "Y2KBUG"} : r.m[k] = <<>>
         THEN NoParse
       ELSE [ok |-> TRUE,
             attr |-> [values EXCEPT !["@"] = 0, !["HIDDEN"] = 0]]

CatUnchanged == UNCHANGED <<parseVars, allocVars, writeVars, ripVars, item>>

PrintLtime ==
    /\ pc = "cat_print" /\ item.what = "ltime"
    /\ text' = print_ltime(item)
    /\ parsed' = parsed
    /\ pc' = "cat_parse"
    /\ CatUnchanged

PrintFileLine ==
    /\ pc = "cat_print" /\ item.what = "file"
    /\ text' = ripFileAttrs(item.timezone)
    /\ parsed' = parsed
    /\ pc' = "cat_parse"
    /\ CatUnchanged

PrintDirLine ==
    /\ pc = "cat_print" /\ item.what = "dir"
    /\ text' = ripDirAttrs(item.timezoneS, item.timezoneP)
    /\ parsed' = parsed
    /\ pc' = "cat_parse"
    /\ CatUnchanged

ParseLtime ==
    /\ pc = "cat_parse" /\ item.what = "ltime"
    /\ parsed' = parse_ltime(text)
    /\ text' = text
    /\ pc' = "cat_done"
    /\ CatUnchanged

ParseFileAttrs ==
    /\ pc = "cat_parse" /\ item.what = "file"
    /\ parsed' = parseFileAttrs(text)
    /\ text' = text
    /\ pc' = "cat_done"
    /\ CatUnchanged

ParseDirAttrs ==
    /\ pc = "cat_parse" /\ item.what = "dir"
    /\ parsed' = parseDirAttrs(text)
    /\ text' = text
    /\ pc' = "cat_done"
    /\ CatUnchanged

InitCat ==
    /\ pc = "cat_print"
    /\ BuildIdle
    /\ img = NoImage
    /\ ripMode = "none"
    /\ catalog = <<>>
    /\ item \in Items
    /\ text = <<>>
    /\ parsed = NoParse

NextCat ==
    \/ PrintLtime
    \/ PrintFileLine
    \/ PrintDirLine
    \/ ParseLtime
    \/ ParseFileAttrs
    \/ ParseDirAttrs

SpecCat == InitCat /\ [][NextCat]_vars

\* ------------------------------------------------------------ catalog lines

\* Number of attributes of a line whose attributes are in any order.
MaxLineAttrs == 2

\* The text written after the keyword groups[j]: a number that tells the
\* attributes apart, an LBN that checkLBN accepts, 1 for HIDDEN.
attrText(groups, j) ==
    IF groups[j] = "@" THEN to_string(rootDirStartSector + j)
    ELSE IF groups[j] = "HIDDEN" THEN to_string(1)
    ELSE to_string(j)

\* The lines that carry a subset of the attributes in the order of the
\* expression.
orderedLines(groups) ==
    { LET js == SelectSeq([j \in 1..Len(groups) |-> j], LAMBDA j : j \in S)
      IN [n \in 1..Len(js) |-> Attr(groups[js[n]], attrText(groups, js[n]))] :
      S \in SUBSET (1..Len(groups)) }

\* The lines that carry up to MaxLineAttrs different attributes in any order.
shuffledLines(groups) ==
    UNION { { [n \in 1..len |-> Attr(groups[js[n]], attrText(groups, js[n]))] :
              js \in { x \in [1..len -> 1..Len(groups)] :
                         \A a, b \in 1..len : a # b => x[a] # x[b] } } :
            len \in 0..MaxLineAttrs }

\* The entry lines of a catalog written by hand.
Lines ==
    { [what |-> "file", attrs |-> l] :
        l \in orderedLines(fileSpec) \cup shuffledLines(fileSpec) }
    \cup { [what |-> w, attrs |-> l] :
             w \in {"dir", "root"},
             l \in orderedLines(dirStart) \cup shuffledLines(dirStart) }

ParseRootAttrs ==
    /\ pc = "cat_parse" /\ item.what = "root"
    /\ parsed' = parseRootAttrs(text)
    /\ text' = text
    /\ pc' = "cat_done"
    /\ CatUnchanged

InitLine ==
    /\ pc = "cat_parse"
    /\ BuildIdle
    /\ img = NoImage
    /\ ripMode = "none"
    /\ catalog = <<>>
    /\ item \in Lines
    /\ text = item.attrs
    /\ parsed = NoParse

NextLine ==
    \/ ParseFileAttrs
    \/ ParseDirAttrs
    \/ ParseRootAttrs

SpecLine == InitLine /\ [][NextLine]_vars

\* ------------------------------------------------------------ identifiers

\* Length of the identifiers and names that are checked.
MaxIdLen == 2

\* Some characters: d-characters, a lower-case letter, the dot, a hyphen.
IdChars == {"A", "Z", "0", "_", "a", ".", "-"}

\* iso9660_is_dchar: upper-case letters, digits and the underscore.
iso9660_is_dchar(c) == c \in {"A", "Z", "0", "_"}

RECURSIVE IdStrings(_)
IdStrings(n) ==
    IF n = 0 THEN {<<>>}
    ELSE LET shorter == IdStrings(n - 1)
         IN shorter \cup
            UNION { { Append(s, c) : c \in IdChars } :
                    s \in {x \in shorter : Len(x) = n - 1} }

\* The items of a catalog that checkDString is applied to.
DStringItems == {"volume_id", "volume_set_id", "copyright_file_id",
                 "abstract_file_id", "bibliographic_file_id", "directory name"}

\* checkDString: a warning at the first character that is no d-character;
\* nothing is thrown.
checkDString(s) ==
    [ok |-> TRUE, warning |-> \E i \in 1..Len(s) : ~iso9660_is_dchar(s[i])]

checkFileName_Warns(s) ==
    [ok |-> TRUE, warning |-> \E i \in 1..Len(s) : ~iso9660_is_dchar(s[i]) /\ s[i] # "."]

\* checkFileName: throws at the first character that is neither a
\* d-character nor a dot.
checkFileName(s) ==
    [ok |-> ~\E i \in 1..Len(s) : ~iso9660_is_dchar(s[i]) /\ s[i] # ".",
     warning |-> FALSE]

\* parseVolume and parseDir: an identifier or a directory name is checked
\* and kept.
CheckDString ==
    /\ pc = "id_check" /\ item.what \in DStringItems
    /\ parsed' = checkDString(text)
    /\ text' = text
    /\ pc' = "id_done"
    /\ CatUnchanged

\* parseDir: a file name is checked; the exception ends the build before
\* anything is written.
CheckFileName ==
    /\ pc = "id_check" /\ item.what = "file name"
    /\ parsed' = checkFileName(text)
    /\ text' = text
    /\ pc' = IF parsed'.ok THEN "id_done" ELSE "aborted"
    /\ CatUnchanged

InitId ==
    /\ pc = "id_check"
    /\ BuildIdle
    /\ img = NoImage
    /\ ripMode = "none"
    /\ catalog = <<>>
    /\ item \in { [what |-> w] : w \in DStringItems \cup {"file name"} }
    /\ text \in IdStrings(MaxIdLen)
    /\ parsed = NoParse

NextId ==
    \/ CheckDString
    \/ CheckFileName

SpecId == InitId /\ [][NextId]_vars

\* ------------------------------------------------------------ track listing

\* Length of the byte strings given to base64_encode.
MaxBytes == 4

\* The bytes of a track listing: NUL, line feed, comma, the digit 1 and 0xFF.
ByteVals == {0, 10, 44, 49, 255}

RECURSIVE ByteStrings(_)
ByteStrings(n) ==
    IF n = 0 THEN {<<>>}
    ELSE LET shorter == ByteStrings(n - 1)
         IN shorter \cup
            UNION { { Append(s, b) : b \in ByteVals } :
                    s \in {x \in shorter : Len(x) = n - 1} }

base64Chars ==
    << "A", "B", "C", "D", "E", "F", "G", "H", "I", "J", "K", "L", "M",
       "N", "O", "P", "Q", "R", "S", "T", "U", "V", "W", "X", "Y", "Z",
       "a", "b", "c", "d", "e", "f", "g", "h", "i", "j", "k", "l", "m",
       "n", "o", "p", "q", "r", "s", "t", "u", "v", "w", "x", "y", "z",
       "0", "1", "2", "3", "4", "5", "6", "7", "8", "9", "+", "/" >>

\* base64_encode: the four 6-bit values of three bytes.
charArray4(a, b, c) ==
    << a \div 4,
       ((a % 4) * 16) + (b \div 16),
       ((b % 16) * 4) + (c \div 64),
       c % 64 >>

\* base64_encode: full groups of three bytes give four characters; the i
\* bytes left at the end (i = 1 or 2) are padded with zero bytes and give
\* i + 1 characters followed by 3 - i "=" characters.
RECURSIVE base64_encode(_)
base64_encode(input) ==
    LET i == Len(input)
        ch(v) == base64Chars[v + 1]
    IN IF i = 0 THEN <<>>
       ELSE IF i >= 3
         THEN LET g == charArray4(input[1], input[2], input[3])
              IN <<ch(g[1]), ch(g[2]), ch(g[3]), ch(g[4])>>
                   \o base64_encode(SubSeq(input, 4, i))
         ELSE LET g == charArray4(input[1], IF i = 2 THEN input[2] ELSE 0, 0)
              IN [j \in 1..4 |-> IF j <= i + 1 THEN ch(g[j]) ELSE "="]

\* base64Chars.find(c), for a character of the alphabet.
base64Find(c) == (CHOOSE k \in 1..Len(base64Chars) : base64Chars[k] = c) - 1

\* base64_decode: the three bytes of four 6-bit values.
decodeGroup(c) ==
    << ((c[1] * 4) + ((c[2] \div 16) % 4)) % 256,
       (((c[2] % 16) * 16) + ((c[3] \div 4) % 16)) % 256,
       (((c[3] % 4) * 64) + c[4]) % 256 >>

\* base64_decode: the loop stops at the first "="; three bytes are appended
\* each time four characters have been collected, and the characters
\* collected when the loop ends are not decoded.
RECURSIVE base64_decode(_)
base64_decode(encodedContent) ==
    IF encodedContent = <<>> \/ encodedContent[1] = "=" THEN <<>>
    ELSE IF Len(encodedContent) < 4
              \/ \E k \in 2..4 : encodedContent[k] = "="
      THEN <<>>
      ELSE decodeGroup([k \in 1..4 |-> base64Find(encodedContent[k])])
             \o base64_decode(SubSeq(encodedContent, 5, Len(encodedContent)))

\* psxrip main: trackListingEncoded = base64_encode(csvTracks).
Base64Encode ==
    /\ pc = "b64_encode"
    /\ text' = base64_encode(item.bytes)
    /\ parsed' = parsed
    /\ pc' = "b64_decode"
    /\ CatUnchanged

\* psxbuild parseVolume: track_listing = base64_decode(m[1].str()).
Base64Decode ==
    /\ pc = "b64_decode"
    /\ parsed' = [ok |-> TRUE, bytes |-> base64_decode(text)]
    /\ text' = text
    /\ pc' = "b64_done"
    /\ CatUnchanged

InitB64 ==
    /\ pc = "b64_encode"
    /\ BuildIdle
    /\ img = NoImage
    /\ ripMode = "none"
    /\ catalog = <<>>
    /\ item \in { [what |-> "bytes", bytes |-> s] : s \in ByteStrings(MaxBytes) }
    /\ text = <<>>
    /\ parsed = NoParse

NextB64 ==
    \/ Base64Encode
    \/ Base64Decode

SpecB64 == InitB64 /\ [][NextB64]_vars

\* ------------------------------------------------------------ XA owner ids

\* Some user and group ids.
OwnerIds == {0, 7, 65535}

\* parseVolume (default_uid, default_gid) and the GID / UID attributes of a
\* file, xafile, cddafile or dir line as parseDir keeps them in the node:
\* nodeGID and nodeUID are reset to 0 for every line and set from the line
\* when it has attributes.
ParseOwnerIds ==
    /\ pc = "xa_parse"
    /\ text' = [defaultUID |-> item.default_uid, defaultGID |-> item.default_gid,
                nodeUID |-> IF item.hasIds THEN item.UID ELSE 0,
                nodeGID |-> IF item.hasIds THEN item.GID ELSE 0]
    /\ parsed' = parsed
    /\ pc' = "xa_make"
    /\ CatUnchanged

\* MakeDirectories::visit: iso9660_xa_init(&xaAttr, nodeUID, nodeGID, ...)
\* for the record of a child; cat.defaultUID and cat.defaultGID are not read.
xaOwner(cat) == [user_id |-> cat.nodeUID, group_id |-> cat.nodeGID]

\* MakeDirectories::visit: the XA attributes of the directory record.
MakeXaAttr ==
    /\ pc = "xa_make"
    /\ parsed' = [ok |-> TRUE, xa |-> xaOwner(text)]
    /\ text' = text
    /\ pc' = "xa_done"
    /\ CatUnchanged

InitXa ==
    /\ pc = "xa_parse"
    /\ BuildIdle
    /\ img = NoImage
    /\ ripMode = "none"
    /\ catalog = <<>>
    /\ item \in [what : {"file", "xafile", "cddafile", "dir"},
                 default_uid : OwnerIds, default_gid : OwnerIds,
                 hasIds : BOOLEAN, UID : OwnerIds, GID : OwnerIds]
    /\ item.hasIds \/ (item.UID = 0 /\ item.GID = 0)
    /\ text = <<>>
    /\ parsed = NoParse

NextXa ==
    \/ ParseOwnerIds
    \/ MakeXaAttr

SpecXa == InitXa /\ [][NextXa]_vars

\* ------------------------------------------------------------ postgap

\* The values of track1_postgap_type in a catalog: the four psxrip writes
\* and one it does not.
PostgapTypes == 0..4

SM_FORM2 == 32

\* _vcd_make_mode2 of an empty payload with submode sm: the submode byte of
\* the subheader (byte 18), the payload, and the EDC the codec computes.
vcd_make_mode2(sm) == [submode |-> sm, payload |-> "zero", edc |-> "computed"]

\* main: sector i of the postgap for the type of the catalog, lastSector
\* telling whether _PSXRIP/Last_sector.bin exists.  The bytes from 24 on of
\* the sector of the file replace those of the sector made; the EDC of a
\* Form 2 sector is zeroed unless the type is 3.
postgapSector(i, type, lastSector) ==
    LET made == IF i = 149 /\ lastSector
                  THEN [vcd_make_mode2(0) EXCEPT !.payload = "file", !.edc = "file"]
                ELSE IF type = 2 \/ type = 3 THEN vcd_make_mode2(SM_FORM2)
                ELSE vcd_make_mode2(0)
    IN IF made.submode = SM_FORM2 /\ type # 3
         THEN [made EXCEPT !.edc = "zero"]
         ELSE made

\* main: one pass of the loop that writes the postgap.
WritePostgapSector ==
    /\ pc = "postgap" /\ Len(text) < PostgapSectors
    /\ text' = Append(text, postgapSector(Len(text), item.type, item.lastSector))
    /\ parsed' = parsed
    /\ pc' = IF Len(text) + 1 = PostgapSectors THEN "postgap_done" ELSE "postgap"
    /\ CatUnchanged

InitPostgap ==
    /\ pc = "postgap"
    /\ BuildIdle
    /\ img = NoImage
    /\ ripMode = "none"
    /\ catalog = <<>>
    /\ item \in [what : {"postgap"}, type : PostgapTypes, lastSector : BOOLEAN]
    /\ text = <<>>
    /\ parsed = NoParse

NextPostgap == WritePostgapSector

SpecPostgap == InitPostgap /\ [][NextPostgap]_vars

\* ------------------------------------------------------------ Y2K markers

MaxY2kEntries == 2

\* The entries of an image as dumpFilesystem meets them: a directory with
\* the y2kbug flags libcdio gives its "." and ".." records, or a file with
\* the flag of its record.
Y2kEntries ==
    [what : {"dir"}, self : {0, 1}, parent : {0, 1}]
      \cup [what : {"file"}, self : {0, 1}, parent : {0}]

\* dumpFilesystem: the Y2KBUG number of a directory line.
dirY2kbug(self, parent, fix) ==
    (IF self = 1 /\ ~fix THEN 1 ELSE 0) + (IF parent = 1 /\ ~fix THEN 10 ELSE 0)

\* dumpFilesystem: the Y2KBUG number of a file line, stat->y2kbug as it is.
fileY2kbug(y2kbug, fix) == y2kbug

\* dumpFilesystem: the line of the next entry is written to the catalog.
DumpEntry ==
    /\ pc = "y2k_dump" /\ Len(text) < Len(item.entries)
    /\ LET e == item.entries[Len(text) + 1]
       IN text' = Append(text,
                    [what |-> e.what,
                     Y2KBUG |-> IF e.what = "dir"
                                  THEN dirY2kbug(e.self, e.parent, item.fixAllDates)
                                  ELSE fileY2kbug(e.self, item.fixAllDates)])
    /\ parsed' = parsed
    /\ pc' = pc
    /\ CatUnchanged

InitY2k ==
    /\ pc = "y2k_dump"
    /\ BuildIdle
    /\ img = NoImage
    /\ ripMode = "none"
    /\ catalog = <<>>
    /\ \E n \in 1..MaxY2kEntries, fix \in BOOLEAN :
          \E es \in [1..n -> Y2kEntries] :
              item = [what |-> "y2k", fixAllDates |-> fix, entries |-> es]
    /\ text = <<>>
    /\ parsed = NoParse

NextY2k == DumpEntry

SpecY2k == InitY2k /\ [][NextY2k]_vars

\* ------------------------------------------------------------ creation year

\* Some years as the four digits of lt_year read: around 0000, 0100, 1900
\* and 2000.
CreationYears == (0..130) \cup (1890..2010)

\* main: the year of the creation date after the fix-up, before the time
\* stamp of the root directory record is made from it.
fixCreationYear(year) ==
    IF year = 0 \/ year = 100 THEN 2000
    ELSE IF year > 0 /\ year < 30 THEN 2000 + (year % 100)
    ELSE IF year >= 70 /\ year < 99 THEN 1900 + (year % 100)
    ELSE IF year >= 1900 /\ year < 1970 THEN 2000 + (year % 100)
    ELSE year

\* convertToEpochTime: the year of a date after its century is replaced.
convertToEpochTime(year) ==
    IF year \div 100 = 0 \/ year \div 100 = 19
      THEN IF year % 100 >= 70 THEN 1900 + (year % 100) ELSE 2000 + (year % 100)
      ELSE year

\* main: the fix-up of cat.creationDate.
FixCreationYear ==
    /\ pc = "year_fix"
    /\ parsed' = [ok |-> TRUE, year |-> fixCreationYear(item.year)]
    /\ text' = text
    /\ pc' = "year_done"
    /\ CatUnchanged

InitYear ==
    /\ pc = "year_fix"
    /\ BuildIdle
    /\ img = NoImage
    /\ ripMode = "none"
    /\ catalog = <<>>
    /\ item \in [what : {"creation_date"}, year : CreationYears]
    /\ text = <<>>
    /\ parsed = NoParse

NextYear == FixCreationYear

SpecYear == InitYear /\ [][NextYear]_vars

\* ------------------------------------------------------------ xafile sectors

MaxXaSectors == 2

\* Some submode bytes of the subheaders stored in the host file of an
\* xafile: Form 1 data sectors and Form 2 sectors (bit 0x20).
SubModes == {0, 8, 137, 32, 100, 228}

\* (buffer[18] & 0x20) == 0x20
IsForm2Sector(s) == (s.submode \div SM_FORM2) % 2 = 1

writeXaSector_AnyForm(sm, nodeEDC) ==
    LET made == [vcd_make_mode2(sm) EXCEPT !.payload = "file"]
    IN IF nodeEDC THEN [made EXCEPT !.edc = "zero"] ELSE made

\* WriteData::visit(FileNode &), a sector of a Form 2 file: the codec makes
\* the sector with the submode of the stored subheader, and its last four
\* bytes are zeroed for a file with ZEROEDC when byte 18 has bit 0x20.
writeXaSector(sm, nodeEDC) ==
    LET made == [vcd_make_mode2(sm) EXCEPT !.payload = "file"]
    IN IF nodeEDC /\ IsForm2Sector(made) THEN [made EXCEPT !.edc = "zero"] ELSE made

\* WriteData::visit(FileNode &): one pass of the sector loop.
WriteXaSector ==
    /\ pc = "xa_write" /\ Len(text) < Len(item.subModes)
    /\ text' = Append(text, writeXaSector(item.subModes[Len(text) + 1], item.nodeEDC))
    /\ parsed' = parsed
    /\ pc' = pc
    /\ CatUnchanged

InitXaWrite ==
    /\ pc = "xa_write"
    /\ BuildIdle
    /\ img = NoImage
    /\ ripMode = "none"
    /\ catalog = <<>>
    /\ \E n \in 1..MaxXaSectors, edc \in BOOLEAN :
          \E sms \in [1..n -> SubModes] :
              item = [what |-> "xafile", nodeEDC |-> edc, subModes |-> sms]
    /\ text = <<>>
    /\ parsed = NoParse

NextXaWrite == WriteXaSector

SpecXaWrite == InitXaWrite /\ [][NextXaWrite]_vars

\* ------------------------------------------------------------ psxrip file copy

MaxCopyEntries == 2

\* The file entries of a directory of an image: the sectors of the extent,
\* the sector a read fails at (0: none) and which read of that sector
\* fails (the raw read of the ZEROEDC test or the read of the data), and the
\* first Form 2 sector with a zero EDC (0: none).
CopyEntries ==
    { e \in [what : {"file", "xafile"}, secsize : 1..2, failAt : 0..2,
             failRead : {"raw", "data"}, zeroEdcAt : 0..2] :
        /\ e.failAt <= e.secsize /\ e.zeroEdcAt <= e.secsize
        /\ e.failAt = 0 => e.failRead = "data"
        /\ e.what = "file" => (e.zeroEdcAt = 0 /\ e.failRead = "data") }

\* dumpFilesystem: the sector loop of the copy from sector s on; c is
\* [edcTest, copied, logged].
RECURSIVE copyLoop(_, _, _)
copyLoop(e, s, c) ==
    IF s > e.secsize THEN c
    ELSE LET rawRead == e.what = "xafile" /\ ~c.edcTest
             rawFails == rawRead /\ e.failAt = s /\ e.failRead = "raw"
             edcTest == c.edcTest \/ (rawRead /\ e.zeroEdcAt = s)
             dataFails == e.failAt = s /\ e.failRead = "data"
         IN IF rawFails THEN [c EXCEPT !.logged = TRUE]
            ELSE IF dataFails THEN [c EXCEPT !.edcTest = edcTest, !.logged = TRUE]
            ELSE copyLoop(e, s + 1, [edcTest |-> edcTest, copied |-> c.copied + 1,
                                     logged |-> c.logged])

copyFile_Truncated(e) ==
    LET c == copyLoop(e, 1, [edcTest |-> FALSE, copied |-> 0, logged |-> FALSE])
    IN [what |-> e.what, copied |-> c.copied, logged |-> c.logged,
        ZEROEDC |-> IF e.what = "xafile" /\ ~c.logged
                      THEN (IF c.edcTest THEN 1 ELSE 0) ELSE -1,
        lineEnd |-> ~c.logged]

\* dumpFilesystem, a file entry: the catalog line up to Y2KBUG, the copy, the
\* ZEROEDC token of a Form 2 file (-1: no token) and the end of the line.
copyFile(e) ==
    LET c == copyLoop(e, 1, [edcTest |-> FALSE, copied |-> 0, logged |-> FALSE])
    IN [what |-> e.what, copied |-> c.copied, logged |-> c.logged,
        ZEROEDC |-> IF e.what = "xafile" THEN (IF c.edcTest THEN 1 ELSE 0) ELSE -1,
        lineEnd |-> TRUE]

\* dumpFilesystem: the next entry of the loop over the sorted children.
DumpFile ==
    /\ pc = "rip_copy" /\ Len(text) < Len(item.entries)
    /\ LET line == copyFile(item.entries[Len(text) + 1])
       IN /\ text' = Append(text, line)
          /\ pc' = IF Len(text) + 1 = Len(item.entries) THEN "rip_copied"
                   ELSE "rip_copy"
    /\ parsed' = parsed
    /\ CatUnchanged

InitCopy ==
    /\ pc = "rip_copy"
    /\ BuildIdle
    /\ img = NoImage
    /\ ripMode = "none"
    /\ catalog = <<>>
    /\ \E n \in 1..MaxCopyEntries :
          \E es \in [1..n -> CopyEntries] : item = [what |-> "copy", entries |-> es]
    /\ text = <<>>
    /\ parsed = NoParse

NextCopy == DumpFile

SpecCopy == InitCopy /\ [][NextCopy]_vars

\* ------------------------------------------------------------ directory sizes

MaxGroup == 22

\* Some lengths of the names of directory entries, the ";1" of a file
\* counted.
NameLens == {1, 8, 10, 12}

\* CalcDirSize::visit(DirNode &), one pass of the loop over the sorted
\* children: parsed.size is size, parsed.records the records counted.
CalcDirSizeRecord ==
    /\ pc = "dir_size" /\ parsed.records < Len(item.lens)
    /\ parsed' = [parsed EXCEPT
                    !.size = dirSizeLoop(parsed.size, <<item.lens[parsed.records + 1]>>),
                    !.records = parsed.records + 1]
    /\ text' = text
    /\ pc' = pc
    /\ CatUnchanged

\* CalcDirSize::visit(DirNode &): the size is rounded up to full sectors.
CalcDirSizeRound ==
    /\ pc = "dir_size" /\ parsed.records = Len(item.lens)
    /\ parsed' = [parsed EXCEPT !.numSectors = CeilDiv(parsed.size, ISO_BLOCKSIZE)]
    /\ text' = text
    /\ pc' = "dir_sized"
    /\ CatUnchanged

InitDirSize ==
    /\ pc = "dir_size"
    /\ BuildIdle
    /\ img = NoImage
    /\ ripMode = "none"
    /\ catalog = <<>>
    /\ \E k1, k2 \in 0..MaxGroup, a, b \in NameLens :
          item = [what |-> "dir",
                  lens |-> [i \in 1..(k1 + k2) |-> IF i <= k1 THEN a ELSE b]]
    /\ text = <<>>
    /\ parsed = [ok |-> TRUE, size |-> dirRecordSize(1) + dirRecordSize(1),
                 records |-> 0, numSectors |-> 0]

NextDirSize ==
    \/ CalcDirSizeRecord
    \/ CalcDirSizeRound

SpecDirSize == InitDirSize /\ [][NextDirSize]_vars

\* ------------------------------------------------------------ path tables

MaxTreeNodes == 3

\* The trees parseDir builds, in the order of the catalog: node 0 is the
\* root; every other node has its directory (an earlier node that is a
\* directory), a kind and a name, a number standing for the string; the
\* names in one directory differ.
Trees(n) ==
    { t \in [1..n -> [parent : 0..(n - 1), dir : BOOLEAN, name : 1..3]] :
        /\ \A i \in 1..n : /\ t[i].parent < i
                           /\ t[i].parent # 0 => t[t[i].parent].dir
        /\ \A i, j \in 1..n :
              (i # j /\ t[i].parent = t[j].parent) => t[i].name # t[j].name }

sortedChildren_Unsorted(t, d) ==
    LET kids == {i \in DOMAIN t : t[i].parent = d}
        RECURSIVE ordered(_, _)
        ordered(left, acc) ==
            IF left = {} THEN acc
            ELSE LET m == CHOOSE i \in left : \A j \in left : i <= j
                 IN ordered(left \ {m}, Append(acc, m))
    IN ordered(kids, <<>>)

\* parseDir: dir->sortedChildren, the children sorted with CmpByName.
sortedChildren(t, d) ==
    LET kids == {i \in DOMAIN t : t[i].parent = d}
        RECURSIVE ordered(_, _)
        ordered(left, acc) ==
            IF left = {} THEN acc
            ELSE LET m == CHOOSE i \in left : \A j \in left : t[i].name <= t[j].name
                 IN ordered(left \ {m}, Append(acc, m))
    IN ordered(kids, <<>>)

\* FSNode::traverseBreadthFirstSorted, one pass of the loop, with
\* PathTables::visit for a directory: the node at the front of the queue is
\* visited and its sorted children are queued.  A table entry is the name
\* and the parent field; the number of an entry is its place in the table.
PathTablesVisit ==
    /\ pc = "path_tables" /\ parsed.q # <<>>
    /\ LET node == Head(parsed.q)
           isDir == node = 0 \/ item.tree[node].dir
           parentRecord == IF node = 0 THEN 1
                           ELSE parsed.recordNumber[item.tree[node].parent]
           entry == [name |-> IF node = 0 THEN 0 ELSE item.tree[node].name,
                     parent |-> parentRecord]
           q == Tail(parsed.q) \o sortedChildren(item.tree, node)
       IN /\ parsed' =
                IF isDir
                  THEN [ok |-> TRUE, q |-> q,
                        lTable |-> Append(parsed.lTable, entry),
                        mTable |-> Append(parsed.mTable, entry),
                        recordNumber |-> [parsed.recordNumber EXCEPT
                                            ![node] = Len(parsed.mTable) + 1]]
                  ELSE [parsed EXCEPT !.q = q]
          /\ pc' = IF q = <<>> THEN "path_tables_done" ELSE pc
    /\ text' = text
    /\ CatUnchanged

InitPathTables ==
    /\ pc = "path_tables"
    /\ BuildIdle
    /\ img = NoImage
    /\ ripMode = "none"
    /\ catalog = <<>>
    /\ \E n \in 1..MaxTreeNodes :
          \E t \in Trees(n) : item = [what |-> "tree", tree |-> t]
    /\ text = <<>>
    /\ parsed = [ok |-> TRUE, q |-> <<0>>, lTable |-> <<>>, mTable |-> <<>>,
                 recordNumber |-> [i \in 0..MaxTreeNodes |-> 0]]

NextPathTables == PathTablesVisit

SpecPathTables == InitPathTables /\ [][NextPathTables]_vars

\* ------------------------------------------------------------ system area

CDIO_CD_FRAMESIZE_RAW == 2352

\* The sizes of some system area files, in bytes; -1: the catalog names no
\* file.
SystemAreaFiles == {-1, 0, 1, 2351, 2352, 2353, 32768, 37631, 37632, 37633, 40000}

readSystemArea_Whole(size) == IF size < 0 THEN 0 ELSE size

\* writeSystemArea: fileSize, the bytes f.read puts into the zeroed data of
\* systemAreaSize bytes.
readSystemArea(size) ==
    LET systemAreaSize == numSystemSectors * CDIO_CD_FRAMESIZE_RAW
    IN IF size < 0 THEN 0
       ELSE IF size > systemAreaSize THEN systemAreaSize ELSE size

\* writeSystemArea: one pass of the two loops: a sector of data while
\* sector < numFileSectors, an empty sector while sector < numSystemSectors.
\* A sector written is the bytes of the file at its start, from the place
\* "from" of the file, and zeros after them.
WriteSystemSector ==
    /\ pc = "system_area"
    /\ LET fileSize == readSystemArea(item.size)
           numFileSectors == CeilDiv(fileSize, CDIO_CD_FRAMESIZE_RAW)
           sector == Len(text)
           left == fileSize - sector * CDIO_CD_FRAMESIZE_RAW
           written == IF sector < numFileSectors
                        THEN [from |-> sector * CDIO_CD_FRAMESIZE_RAW,
                              fileBytes |-> IF left > CDIO_CD_FRAMESIZE_RAW
                                              THEN CDIO_CD_FRAMESIZE_RAW ELSE left]
                        ELSE [from |-> 0, fileBytes |-> 0]
       IN /\ text' = Append(text, written)
          /\ pc' = IF sector + 1 >= numFileSectors /\ sector + 1 >= numSystemSectors
                     THEN "system_area_done" ELSE pc
    /\ parsed' = parsed
    /\ CatUnchanged

InitSystemArea ==
    /\ pc = "system_area"
    /\ BuildIdle
    /\ img = NoImage
    /\ ripMode = "none"
    /\ catalog = <<>>
    /\ item \in [what : {"system_area"}, size : SystemAreaFiles]
    /\ text = <<>>
    /\ parsed = NoParse

NextSystemArea == WriteSystemSector

SpecSystemArea == InitSystemArea /\ [][NextSystemArea]_vars

\* ------------------------------------------------------------ psxrip audio tracks

MaxPregap == 3
MaxTrackData == 4

\* The sectors of an audio track as psxrip's main takes them from libcdio:
\* the pregap, the start before the pregap, the start of the data, the end
\* and the total including the pregap.
AudioTracks ==
    { [what |-> "audio_track", pregap_sector |-> p, start_sector |-> lba - p,
       data_sector |-> lba, end_sector |-> lba + n - 1, total_sector |-> n + p] :
         p \in 0..MaxPregap, n \in 1..MaxTrackData, lba \in {MaxPregap, 150} }

\* main: data_size, computed by the same expression for Track_NN.wav and for
\* Pregap_NN.wav.
wavDataSize(t) == (t.total_sector - t.pregap_sector) * CDIO_CD_FRAMESIZE_RAW

\* main: fopen and the 44 bytes of the header, for Track_NN.wav and then
\* for Pregap_NN.wav.
WriteWavHeader ==
    /\ pc \in {"wav_track_open", "wav_pregap_open"}
    /\ LET name == IF pc = "wav_track_open" THEN "Track" ELSE "Pregap"
           data_size == wavDataSize(item)
       IN /\ text' = Append(text, [name |-> name,
                                   chunkSize |-> 36 + data_size,
                                   dataSize |-> data_size,
                                   audioBytes |-> 0])
          /\ parsed' = [ok |-> TRUE,
                        sector |-> IF pc = "wav_track_open" THEN item.data_sector
                                   ELSE item.start_sector]
          /\ pc' = IF pc = "wav_track_open" THEN "wav_track" ELSE "wav_pregap"
    /\ CatUnchanged

\* main: one pass of a sector loop; bufferRAW is written whether or not
\* cdio_read_audio_sector succeeded.
WriteWavSector ==
    /\ pc \in {"wav_track", "wav_pregap"}
    /\ IF pc = "wav_track" THEN parsed.sector <= item.end_sector
       ELSE parsed.sector < item.data_sector
    /\ \E r \in {"DRIVER_OP_SUCCESS", "DRIVER_OP_ERROR"} :
          LET file == text[Len(text)]
          IN text' = [text EXCEPT ![Len(text)] =
                         [file EXCEPT !.audioBytes = @ + CDIO_CD_FRAMESIZE_RAW]]
    /\ parsed' = [parsed EXCEPT !.sector = @ + 1]
    /\ pc' = pc
    /\ CatUnchanged

\* main: the end of a sector loop and fclose; the pregap file follows the
\* track file when pregap_sector > 0.
CloseWav ==
    /\ pc \in {"wav_track", "wav_pregap"}
    /\ IF pc = "wav_track" THEN parsed.sector > item.end_sector
       ELSE parsed.sector >= item.data_sector
    /\ pc' = IF pc = "wav_track" /\ item.pregap_sector > 0
               THEN "wav_pregap_open" ELSE "wav_done"
    /\ UNCHANGED <<text, parsed>>
    /\ CatUnchanged

InitWav ==
    /\ pc = "wav_track_open"
    /\ BuildIdle
    /\ img = NoImage
    /\ ripMode = "none"
    /\ catalog = <<>>
    /\ item \in AudioTracks
    /\ text = <<>>
    /\ parsed = NoParse

NextWav == WriteWavHeader \/ WriteWavSector \/ CloseWav

SpecWav == InitWav /\ [][NextWav]_vars

\* ------------------------------------------------------------ properties

DefaultMode == strictRebuild # 1
StrictMode == strictRebuild = 1

\* The allocator has run to its end (and, in "allocated" and "makedirs",
\* MakeDirectories has not yet touched the audio references).
AfterAllocation ==
    pc \in {"allocated", "makedirs", "write_system", "write_descriptors",
            "write_data", "write_postgap", "write_audio", "write_cue", "done"}
BeforeMakeDirectories == pc \in {"allocated", "makedirs"}
AfterMakeDirectories == AfterAllocation /\ ~BeforeMakeDirectories

NodeIds == 1..Len(nodes)
HasExtent(i) == ~IsAudio(nodes[i])
EndOf(i) == nodes[i].firstSector + nodes[i].numSectors

\* C2: in every build, default and strict, each directory extent and each
\* non-audio file extent is written at the sector index equal to the
\* firstSector of its node, and every track-1 sector written, the 150 postgap
\* sectors included, carries the header address of its position in the file.
C2_WrittenAtFirstSector ==
    pc = "done" =>
        \A k \in 1..Len(runs) :
            /\ runs[k].what = "extent" => runs[k].pos = nodes[runs[k].node].firstSector
            /\ runs[k].what # "audio" => runs[k].hdr = runs[k].pos

\* A step of the pre-order traversal of the default allocator.
VisitStep == pc = "alloc" /\ DefaultMode /\ ai' = ai + 1

\* C3 (as amended): the default allocation visits the nodes in pre-order with
\* a cursor that starts at 22; a non-audio node whose requested LBN is set
\* and >= cursor is placed at the requested LBN without a warning; one whose
\* requested LBN is set and < cursor gets a warning and is placed at the
\* cursor, and the build goes on; one without a requested LBN is placed at
\* the cursor; in every case the cursor becomes firstSector + sectorCount.
C3_DefaultAllocation ==
    [][VisitStep =>
        LET n == nodes[ai]
            req == n.requestedStartSector
            fs == nodes'[ai].firstSector
        IN /\ ai = 1 => currentSector = 22
           /\ ~IsAudio(n) =>
                /\ (req # 0 /\ req >= currentSector) => (fs = req /\ ai \notin warned')
                /\ (req # 0 /\ req < currentSector) =>
                        (fs = currentSector /\ ai \in warned' /\ pc' # "aborted")
                /\ req = 0 => (fs = currentSector /\ ai \notin warned')
           /\ currentSector' = fs + n.numSectors]_vars

\* C3 as stated: the warning and the placement at the cursor also when the
\* requested LBN equals the cursor.
C3_WarnsAtEquality ==
    [][VisitStep =>
        LET n == nodes[ai]
            req == n.requestedStartSector
            fs == nodes'[ai].firstSector
        IN ~IsAudio(n) =>
                /\ (req # 0 /\ req > currentSector) => fs = req
                /\ (req # 0 /\ req <= currentSector) =>
                        (fs = currentSector /\ ai \in warned')
                /\ req = 0 => fs = currentSector]_vars

\* A default allocation in which one node asked for exactly the sector the
\* cursor stood at, and a later one asked for a sector below the cursor.
C3_Witness ==
    /\ pc = "allocated" /\ DefaultMode
    /\ \E i, j \in NodeIds :
          /\ i > 1 /\ j > i
          /\ HasExtent(i) /\ HasExtent(i - 1)
          /\ nodes[i].requestedStartSector = EndOf(i - 1)
          /\ nodes[i].firstSector = nodes[i].requestedStartSector
          /\ i \notin warned
          /\ j \in warned

\* C4: after the default allocation, for any two nodes A before B in
\* pre-order, firstSector(A) + sectorCount(A) <= firstSector(B), whatever
\* LBNs the catalog requests; it stays so for the nodes that have an extent
\* once MakeDirectories has moved the audio references.
C4_NoOverlap ==
    /\ (DefaultMode /\ BeforeMakeDirectories) =>
          \A a, b \in NodeIds : a < b => EndOf(a) <= nodes[b].firstSector
    /\ (DefaultMode /\ AfterAllocation) =>
          \A a, b \in NodeIds :
              (a < b /\ HasExtent(a) /\ HasExtent(b)) => EndOf(a) <= nodes[b].firstSector

\* A default allocation of a full catalog in which a request lay below the cursor.
C4_Witness ==
    /\ pc = "allocated" /\ DefaultMode
    /\ Len(nodes) = MaxNodes + 1
    /\ \E i \in warned : nodes[i].requestedStartSector < EndOf(i - 1)

\* C5 as stated: after the default allocation firstSector grows strictly
\* along the pre-order, for nodes of every kind.
C5_StrictlyIncreasing ==
    (DefaultMode /\ BeforeMakeDirectories) =>
        \A a, b \in NodeIds : a < b => nodes[a].firstSector < nodes[b].firstSector

\* C5 (as amended): after the default allocation firstSector never decreases
\* along the pre-order, and it grows strictly from every node that is not
\* an audio reference to every later node; an audio reference has no
\* sectors, so the node that follows it may get the same firstSector.
C5_Increasing ==
    (DefaultMode /\ BeforeMakeDirectories) =>
        \A a, b \in NodeIds :
            a < b => /\ nodes[a].firstSector <= nodes[b].firstSector
                     /\ HasExtent(a) => nodes[a].firstSector < nodes[b].firstSector

\* A default allocation with an audio reference followed by a node that got
\* the same firstSector, the root directory being followed by a node that
\* lies above it.
C5_Witness ==
    /\ pc = "allocated" /\ DefaultMode
    /\ \E a \in NodeIds : /\ a < Len(nodes) /\ IsAudio(nodes[a])
                          /\ nodes[a].firstSector = nodes[a + 1].firstSector
    /\ \E a \in NodeIds : /\ a < Len(nodes) /\ HasExtent(a)
                          /\ nodes[a].firstSector < nodes[a + 1].firstSector

\* C6: after the strict allocation every non-overflow file has firstSector
\* equal to its requested LBN, every overflow file has firstSector at or
\* after the end of every extent placed for a non-overflow node, and the
\* overflow files follow one another in the order they were met.
C6_StrictPlacement ==
    (StrictMode /\ pc = "allocated") =>
        /\ \A i \in NodeIds :
              (IsFile(nodes[i]) /\ HasExtent(i) /\ ~isOverflow(nodes[i])
                 /\ nodes[i].requestedStartSector # 0)
              => nodes[i].firstSector = nodes[i].requestedStartSector
        /\ \A o, j \in NodeIds :
              (isOverflow(nodes[o]) /\ HasExtent(j) /\ ~isOverflow(nodes[j]))
              => nodes[o].firstSector >= EndOf(j)
        /\ \A k \in 1..Len(overflowFiles) - 1 :
              nodes[overflowFiles[k + 1]].firstSector = EndOf(overflowFiles[k])

\* The offset between the rebuilt and the original track 1: the end of
\* track 1 as the allocator leaves it, plus the postgap, minus the
\* track1_sector_count of the catalog.
T1Growth == (currentSector + PostgapSectors) - track1SectorCount

C8_SameOffset ==
    pc = "done" =>
        /\ \A i \in NodeIds :
              IsAudio(nodes[i]) =>
                  nodes[i].firstSector - nodes[i].requestedStartSector = T1Growth
        /\ \A k \in 2..Len(tracks) :
              /\ cue[k].index01 - tracks[k].dataOffset = T1Growth
              /\ cue[k].hasIndex00 => cue[k].index00 - tracks[k].startSector = T1Growth

\* C9: every firstSector the allocator assigns to a directory or a
\* non-audio file, in default and in strict mode, for every catalog that
\* passes parsing, is >= 22 and < 333000.
C9_LBNRange ==
    AfterAllocation =>
        \A i \in NodeIds :
            HasExtent(i) => (nodes[i].firstSector >= 22 /\ nodes[i].firstSector < 333000)

\* The sectors psxbuild gives the extent of an image entry once it is ripped.
BuildSectors(e) ==
    IF e.kind = "dir" THEN e.secsize ELSE FileNumSectors(e.kind, hostFileSize(e))

ImgExtents == {i \in 1..Len(img.entries) : img.entries[i].kind # "cddafile"}

\* The extents of the image, sized as psxbuild sizes them, lie after the
\* root directory and do not overlap.
ImgDisjoint ==
    /\ \A i \in ImgExtents : img.entries[i].lsn >= img.root + 1
    /\ \A i, j \in ImgExtents :
          i # j => \/ img.entries[i].lsn + BuildSectors(img.entries[i]) <= img.entries[j].lsn
                   \/ img.entries[j].lsn + BuildSectors(img.entries[j]) <= img.entries[i].lsn

\* Track 1 of the image ends 150 sectors after its last extent.
ImgTrack1Tight ==
    \A m \in {img.root + 1} \cup
             {img.entries[i].lsn + BuildSectors(img.entries[i]) : i \in ImgExtents} :
        (\A x \in {img.root + 1} \cup
                  {img.entries[i].lsn + BuildSectors(img.entries[i]) : i \in ImgExtents} :
            x <= m)
        => img.track1 = m + PostgapSectors

\* In the order of the catalog no entry starts below the end of the entry
\* with an extent before it.
CatalogAscending ==
    \A a, b \in NodeIds :
        (a < b /\ HasExtent(a) /\ HasExtent(b) /\ b > 1) =>
            (IF a = 1 THEN rootDirStartSector ELSE nodes[a].requestedStartSector)
              + nodes[a].numSectors <= nodes[b].requestedStartSector

\* The sector map of the rebuilt image is the one of the ripped image.
SameSectorMap ==
    /\ nodes[1].firstSector = img.root
    /\ \A i \in 2..Len(nodes) :
          HasExtent(i) => nodes[i].firstSector = img.entries[nodes[i].name].lsn
    /\ currentSector + PostgapSectors = img.track1
    /\ pc = "write_audio" => imagePos = img.track1
    /\ AfterMakeDirectories =>
          \A i \in 2..Len(nodes) :
              IsAudio(nodes[i]) => /\ nodes[i].firstSector = img.entries[nodes[i].name].lsn
                                   /\ track1SectorCountOffset = 0

C10_CatalogRoundTrip ==
    pc = "cat_done" =>
        /\ parsed.ok
        /\ item.what = "ltime" =>
              /\ parsed.gmtoff = item.gmtoff
              /\ parsed.date = printCentury(item) \o SubSeq(item.date, 3, 16)
        /\ item.what = "file" => parsed.timezone = item.timezone
        /\ item.what = "dir" => /\ parsed.timezoneS = item.timezoneS
                                /\ parsed.timezoneP = item.timezoneP


\* C11: for every byte string s, of every length, those not divisible by 3
\* included, base64_decode(base64_encode(s)) = s: the track listing psxbuild
\* decodes is the one psxrip encoded.
C11_Base64RoundTrip ==
    pc = "b64_done" => parsed.bytes = item.bytes

\* The groups of the expression a line is matched against.
GroupsOf(what) == IF what = "file" THEN fileSpec ELSE dirStart

\* The attributes of the line are in the order of the expression.
InGrammarOrder ==
    \E l \in orderedLines(GroupsOf(item.what)) : l = text

\* The value the attribute key of the line stands for, its default when the
\* line does not carry it.
WrittenValue(key) ==
    IF \E n \in 1..Len(text) : text[n].key = key
      THEN LET val == text[CHOOSE n \in 1..Len(text) : text[n].key = key].val
           IN IF key \in DateKeys THEN val ELSE StrToNat(val)
      ELSE IF key \in DateKeys THEN <<>> ELSE 0

\* C12: every attribute of an entry line is optional: a root, sub-directory
\* or file line that carries any subset of its attributes, none included,
\* is parsed without error, every attribute it carries is stored with its
\* value and every other attribute takes its default.
C12_AttributesOptional ==
    (pc = "cat_done" /\ item.what \in {"file", "dir", "root"} /\ InGrammarOrder) =>
        /\ parsed.ok
        /\ \A k \in DOMAIN parsed.attr : parsed.attr[k] = WrittenValue(k)

\* What the parser makes of the attributes l of a line of the kind what.
ParseOf(what, l) ==
    IF what = "file" THEN parseFileAttrs(l)
    ELSE IF what = "dir" THEN parseDirAttrs(l)
    ELSE parseRootAttrs(l)

SameTokens(l, t) == {l[n] : n \in 1..Len(l)} = {t[n] : n \in 1..Len(t)}

\* C13 as stated: the attributes of an entry line are order-insensitive; a
\* line parses to the node of the line that carries the same tokens in the
\* order of the expression.
C13_OrderInsensitive ==
    pc = "cat_done" =>
        \A l \in orderedLines(GroupsOf(item.what)) :
            SameTokens(l, text) => parsed = ParseOf(item.what, l)

\* C13 (as amended): the attributes of an entry line are order-sensitive; a
\* line whose attributes are not in the order of the expression is rejected,
\* so of the lines that carry the same tokens only the one in that order
\* can be parsed to a node.
C13_OrderSensitive ==
    (pc = "cat_done" /\ ~InGrammarOrder) => ~parsed.ok

\* A file line with two attributes in the wrong order has been rejected,
\* while the same two attributes in the right order are parsed.
C13_Witness ==
    /\ pc = "cat_done" /\ item.what = "file"
    /\ Len(text) = 2 /\ ~InGrammarOrder /\ ~parsed.ok
    /\ \E l \in orderedLines(fileSpec) : SameTokens(l, text) /\ parseFileAttrs(l).ok

\* C14: a cddafile line must carry an LBN: a cddafile line without "@" is
\* rejected by the parser, and no audio reference with requested LBN 0
\* reaches the building of the directories.
C14_CddaNeedsLBN ==
    pc = "makedirs" =>
        \A i \in NodeIds : IsAudio(nodes[i]) => nodes[i].requestedStartSector # 0

\* The sector count of file node i is the host file size divided by the
\* block size, 2048 for Form 1 and 2336 for Form 2, rounded up; an empty
\* file other than an audio reference has one sector, an empty audio
\* reference none.
SectorCountOk(i) ==
    LET n == nodes[i]
        blockSize == IF n.kind = "xafile" THEN 2336 ELSE 2048
    IN /\ n.size > 0 => /\ (n.numSectors - 1) * blockSize < n.size
                        /\ n.size <= n.numSectors * blockSize
       /\ (n.size = 0 /\ n.kind # "cddafile") => n.numSectors = 1
       /\ (n.size = 0 /\ n.kind = "cddafile") => n.numSectors = 0

\* C15 as stated: the sector counts, and size 0 in the directory record of
\* every empty file that is not an audio reference.
C15_SectorCount ==
    AfterMakeDirectories =>
        \A i \in NodeIds :
            IsFile(nodes[i]) =>
                /\ SectorCountOk(i)
                /\ (nodes[i].size = 0 /\ nodes[i].kind # "cddafile")
                      => nodes[i].recordSize = 0

\* C15 (as amended): the sector counts; the directory record of a Form-1
\* file lists the host file size, 0 for an empty file; the record of a
\* Form-2 file lists 2048 bytes per sector, so 2048 for an empty one.
C15_SectorCountAmended ==
    AfterMakeDirectories =>
        \A i \in NodeIds :
            IsFile(nodes[i]) =>
                /\ SectorCountOk(i)
                /\ nodes[i].kind = "file" => nodes[i].recordSize = nodes[i].size
                /\ nodes[i].kind = "xafile"
                      => nodes[i].recordSize = nodes[i].numSectors * 2048

\* A finished build with an empty Form-1 file, and one with an empty Form-2
\* file and a Form-2 file of two sectors.
C15_Witness ==
    /\ pc = "done"
    /\ \E i, j \in NodeIds :
          /\ nodes[i].kind = "xafile" /\ nodes[i].size = 0 /\ nodes[i].recordSize = 2048
          /\ \/ nodes[j].kind = "file" /\ nodes[j].size = 0 /\ nodes[j].numSectors = 1
             \/ nodes[j].kind = "xafile" /\ nodes[j].numSectors = 2

\* The runs of the image file that hold the extent of a node.
ExtentRuns == {k \in 1..Len(runs) : runs[k].what = "extent"}

\* Run k is written before run l, and lies below it in the file.
WrittenBefore(k, l) == k < l /\ runs[k].pos + runs[k].len <= runs[l].pos

InvalidIdentifier ==
    \E i \in 1..Len(text) :
        ~iso9660_is_dchar(text[i]) /\ ~(item.what = "file name" /\ text[i] = ".")

\* C17 as stated: an invalid character in volume_id, volume_set_id, the
\* copyright, abstract or bibliographic file id, a directory name or a file
\* name is fatal: the build aborts and produces no image.
C17_InvalidIsFatal ==
    (pc # "id_check" /\ InvalidIdentifier) => (pc = "aborted" /\ runs = <<>>)

\* C17 (as amended): an invalid character in a file name is fatal, the
\* build aborts and produces no image; in one of the volume identifiers or
\* in a directory name it gives a warning and the build goes on; a valid
\* name gives neither.
C17_FileNameIsFatal ==
    pc # "id_check" =>
        /\ (InvalidIdentifier /\ item.what = "file name") =>
              (pc = "aborted" /\ ~parsed.ok /\ runs = <<>>)
        /\ (InvalidIdentifier /\ item.what \in DStringItems) =>
              (pc = "id_done" /\ parsed.ok /\ parsed.warning)
        /\ ~InvalidIdentifier => (pc = "id_done" /\ parsed.ok /\ ~parsed.warning)

\* A file name with a lower-case letter after a dot has been refused.
C17_Witness ==
    /\ pc = "aborted" /\ item.what = "file name"
    /\ Len(text) = 2 /\ text[1] = "." /\ text[2] = "a"

\* The files of a default build whose host file needs more sectors than the
\* SIZE of the catalog reserved.
DefaultOverflows == {i \in NodeIds : DefaultMode /\ HasExtent(i) /\ isOverflow(nodes[i])}

\* C18 as stated: in default mode a file whose host size needs more sectors
\* than its catalog SIZE reserved is fatal: the build aborts and writes no
\* image in which later items are displaced.
C18_OverflowIsFatal ==
    (pc # "parse" /\ DefaultOverflows # {}) => (pc = "aborted" /\ runs = <<>>)

\* C18 (as amended): in default mode such a file is no error: the build is
\* aborted only by the parser, before any sector is allocated; the file gets the sectors its host size needs;
\* every later node starts at or after its end, a later node whose requested
\* LBN lies below that end being moved there with a warning; and the image
\* is written with the whole of the file.
C18_OverflowDisplaces ==
    \A i \in DefaultOverflows :
        /\ pc = "aborted" => (ai = 1 /\ currentSector = rootDirStartSector)
        /\ BeforeMakeDirectories =>
              /\ nodes[i].numSectors = CeilDiv(nodes[i].size, BlockSize(nodes[i]))
              /\ \A j \in NodeIds :
                    j > i => /\ nodes[j].firstSector >= EndOf(i)
                             /\ (HasExtent(j) /\ nodes[j].requestedStartSector # 0
                                   /\ nodes[j].requestedStartSector < EndOf(i))
                                => j \in warned
        /\ pc = "done" =>
              \E k \in 1..Len(runs) :
                  /\ runs[k].what = "extent" /\ runs[k].node = i
                  /\ runs[k].len = nodes[i].numSectors
                  /\ runs[k].pos = nodes[i].firstSector

\* A finished default build in which a file took one sector more than was
\* reserved and the next file, requested right after the reserved sectors,
\* was moved.
C18_Witness ==
    /\ pc = "done"
    /\ \E i \in DefaultOverflows :
          /\ i < Len(nodes)
          /\ nodes[i].firstSector = nodes[i].requestedStartSector
          /\ nodes[i + 1].requestedStartSector = EndOf(i) - 1
          /\ nodes[i + 1].firstSector = EndOf(i)

\* The root directory sections the parser has accepted: the directories
\* without a parent.
RootSections == {i \in NodeIds : IsDir(nodes[i]) /\ nodes[i].parent = 0}

\* The image file exists once main has opened it, which it does right before
\* the system area is written.
ImageCreated == runs # <<>> \/ imagePos # 0

\* C19: a catalog has exactly one root dir section: the end of a catalog
\* without one, and a second root line, abort the build with exit code 1;
\* every abort leaves the image file uncreated; and an image is created only
\* for a catalog with one root section, after parsing and allocation.
C19_ExactlyOneRoot ==
    /\ [][(ParseEnd /\ nodes = <<>>) => (pc' = "aborted" /\ exitCode' = 1)]_vars
    /\ [][(ParseRootDir /\ nodes # <<>>) => (pc' = "aborted" /\ exitCode' = 1)]_vars
    /\ [](exitCode = 1 => ~ImageCreated)
    /\ [](ImageCreated => Cardinality(RootSections) = 1)
    /\ [](ImageCreated => /\ pc \in {"write_descriptors", "write_data", "write_postgap",
                                     "write_audio", "write_cue", "done"}
                           /\ DefaultMode => ai = Len(nodes) + 1)
    /\ [](pc \notin {"parse", "aborted"} => Cardinality(RootSections) = 1)

\* A build aborted by a second root section, after a first one with an
\* entry in it was read.
C19_Witness ==
    /\ pc = "aborted" /\ exitCode = 1
    /\ open = <<>> /\ Len(nodes) > 1
    /\ ~ImageCreated

\* The whole image: main has written the system area, the descriptors, the
\* extents of all nodes that have one, the postgap and the audio tracks.
CompleteImage ==
    /\ pc = "done"
    /\ imagePos = SeqSum([k \in 1..Len(runs) |-> runs[k].len])
    /\ \A i \in NodeIds : HasExtent(i) =>
          \E k \in 1..Len(runs) : runs[k].what = "extent" /\ runs[k].node = i
    /\ \E k \in 1..Len(runs) : runs[k].what = "postgap"
    /\ runs[Len(runs)].what = "audio"

\* C20: the volume space size of the PVD is the allocator's final cursor
\* plus the 150 postgap sectors plus the audio sectors; a size above 333000
\* sectors is warned about and aborts nothing: every step from the
\* allocation on goes ahead, and the finished image is complete.
C20_VolumeSize ==
    /\ [](pc \in {"write_data", "write_postgap", "write_audio", "write_cue", "done"} =>
             volumeDesc.volume_space_size = currentSector + 150 + audioSectors)
    /\ [](pc \in {"makedirs", "write_system", "write_descriptors", "write_data",
                  "write_postgap", "write_audio", "write_cue", "done"} =>
             (sizeWarning <=> currentSector + 150 + audioSectors > 333000))
    /\ [](sizeWarning => pc # "aborted")
    /\ [][sizeWarning => pc' # "aborted"]_vars
    /\ []((pc = "done" /\ sizeWarning) => CompleteImage)

\* A finished build whose image is larger than 333000 sectors, the data
\* track alone in one case.
C20_Witness ==
    /\ CompleteImage
    /\ sizeWarning
    /\ currentSector > MAX_ISO_SECTORS
    /\ volumeDesc.volume_space_size = currentSector + 150 + audioSectors

\* C21: an entry whose line gives no GID / UID gets a directory record whose
\* XA user and group ids are default_uid and default_gid of the volume
\* section.
C21_DefaultOwner ==
    (pc = "xa_done" /\ ~item.hasIds) =>
        (parsed.xa.user_id = item.default_uid /\ parsed.xa.group_id = item.default_gid)

\* The sectors of the postgap types: 1 is empty, 2 is Form 2 with a zero
\* EDC, 3 is Form 2 with its EDC.
IsPostgapType(s, type) ==
    /\ s.payload = "zero"
    /\ type = 1 => s.submode = 0
    /\ type = 2 => (s.submode = SM_FORM2 /\ s.edc = "zero")
    /\ type = 3 => (s.submode = SM_FORM2 /\ s.edc = "computed")

\* C22: the postgap has exactly 150 sectors; with type 1, 2 or 3 all of
\* them are of the type; the sector of Last_sector.bin is in position 149
\* only if the type is 0 and the file exists.
C22_Postgap ==
    pc = "postgap_done" =>
        /\ Len(text) = 150
        /\ item.type \in 1..3 => \A k \in 1..150 : IsPostgapType(text[k], item.type)
        /\ \A k \in 1..150 :
              text[k].payload = "file" => (k = 150 /\ item.type = 0 /\ item.lastSector)

\* C23: without the fix a directory line carries Y2KBUG = self + 10 * parent;
\* with the fix no line of the catalog, directory or file, carries a
\* Y2KBUG other than 0.
C23_Y2kMarker ==
    \A k \in 1..Len(text) :
        LET e == item.entries[k]
        IN /\ (~item.fixAllDates /\ e.what = "dir") =>
                  text[k].Y2KBUG = e.self + 10 * e.parent
           /\ item.fixAllDates => text[k].Y2KBUG = 0

\* C24: a creation year whose century reads 00 or 19 is fixed to 19yy when
\* yy >= 70 and to 20yy otherwise, as convertToEpochTime does; a year of
\* another century is left as it is.
C24_CenturyFix ==
    pc = "year_done" =>
        LET century == item.year \div 100
            yy == item.year % 100
        IN /\ century \in {0, 19} =>
                 /\ parsed.year = IF yy >= 70 THEN 1900 + yy ELSE 2000 + yy
                 /\ parsed.year = convertToEpochTime(item.year)
           /\ century \notin {0, 19} => parsed.year = item.year

\* C25: a sector of an xafile has its last four bytes zeroed if and only if
\* the file has ZEROEDC and the subheader of the sector marks Form 2; every
\* other sector is as the codec made it, with its EDC.
C25_ZeroEdc ==
    \A k \in 1..Len(text) :
        LET zeroed == item.nodeEDC /\ (item.subModes[k] \div 32) % 2 = 1
        IN /\ text[k].submode = item.subModes[k]
           /\ text[k].payload = "file"
           /\ text[k].edc = IF zeroed THEN "zero" ELSE "computed"

\* A file with ZEROEDC written with a Form 2 sector, zeroed, and a Form 1
\* sector, which kept its EDC.
C25_Witness ==
    /\ item.what = "xafile" /\ item.nodeEDC /\ Len(text) = 2
    /\ \E k, l \in 1..2 :
          /\ IsForm2Sector(text[k]) /\ text[k].edc = "zero"
          /\ ~IsForm2Sector(text[l]) /\ text[l].edc = "computed"

\* C26: a read error while a file is copied stops the copy of that file at
\* the failing sector and is logged; the line of the file is still written
\* whole, with the ZEROEDC token of an xafile and the line end; and every
\* later entry gets its line.
C26_ReadErrorRecoverable ==
    /\ pc \in {"rip_copy", "rip_copied"}
    /\ pc = "rip_copied" => Len(text) = Len(item.entries)
    /\ \A k \in 1..Len(text) :
          LET e == item.entries[k]
              failed == text[k].logged
          IN /\ text[k].lineEnd
             /\ (e.what = "xafile") <=> (text[k].ZEROEDC \in {0, 1})
             /\ failed => (e.failAt > 0 /\ text[k].copied = e.failAt - 1)
             /\ ~failed => text[k].copied = e.secsize
             /\ (e.failAt > 0 /\ e.failRead = "data") => failed

\* A dump in which the copy of an xafile failed at its second sector and
\* the line of the next entry was written.
C26_Witness ==
    /\ pc = "rip_copied" /\ Len(text) = 2
    /\ item.entries[1].what = "xafile"
    /\ text[1].logged /\ text[1].copied = 1 /\ text[1].ZEROEDC = 1
    /\ text[2].lineEnd /\ ~text[2].logged

\* C27: the records of a directory are laid out one after the other, a
\* record starting the next sector only when it would otherwise cross a
\* sector boundary (not when it ends exactly on one), and numSectors is the
\* smallest number of sectors that holds the layout.
C27_DirSectors ==
    /\ [][(pc = "dir_size" /\ parsed'.records = parsed.records + 1) =>
             LET rec == dirRecordSize(item.lens[parsed.records + 1])
                 room == ISO_BLOCKSIZE - (parsed.size % ISO_BLOCKSIZE)
                 start == IF rec > room THEN parsed.size + room ELSE parsed.size
             IN parsed'.size = start + rec]_vars
    /\ [](pc = "dir_sized" =>
             /\ parsed.numSectors * ISO_BLOCKSIZE >= parsed.size
             /\ (parsed.numSectors - 1) * ISO_BLOCKSIZE < parsed.size)


\* The directories of the tree of item, and the depth of a node.
TreeDirs == {0} \cup {i \in DOMAIN item.tree : item.tree[i].dir}

RECURSIVE TreeDepth(_)
TreeDepth(i) == IF i = 0 THEN 0 ELSE 1 + TreeDepth(item.tree[i].parent)

\* d comes before e in the breadth-first, name-sorted order.
RECURSIVE BreadthFirstBefore(_, _)
BreadthFirstBefore(d, e) ==
    IF TreeDepth(d) # TreeDepth(e) THEN TreeDepth(d) < TreeDepth(e)
    ELSE IF d = 0 \/ e = 0 THEN FALSE
    ELSE IF item.tree[d].parent = item.tree[e].parent
      THEN item.tree[d].name < item.tree[e].name
    ELSE BreadthFirstBefore(item.tree[d].parent, item.tree[e].parent)

\* C28: the record numbers are 1, 2, ... in breadth-first, name-sorted
\* order; the root is record 1 with parent 1; the parent field of every
\* other directory is the record number of its directory, smaller than its
\* own; and the L table and the M table hold the same entries in the same
\* order.
C28_PathTableNumbers ==
    pc = "path_tables_done" =>
        LET rec == parsed.recordNumber
        IN /\ {rec[d] : d \in TreeDirs} = 1..Cardinality(TreeDirs)
           /\ \A d, e \in TreeDirs : BreadthFirstBefore(d, e) => rec[d] < rec[e]
           /\ rec[0] = 1 /\ parsed.lTable[1].parent = 1
           /\ \A d \in TreeDirs \ {0} :
                 /\ parsed.lTable[rec[d]].name = item.tree[d].name
                 /\ parsed.lTable[rec[d]].parent = rec[item.tree[d].parent]
                 /\ parsed.lTable[rec[d]].parent < rec[d]
           /\ parsed.lTable = parsed.mTable
           /\ Len(parsed.lTable) = Cardinality(TreeDirs)

\* Finished tables of a tree whose second directory of the catalog sorts
\* first and which has a directory in a directory.
C28_Witness ==
    /\ pc = "path_tables_done"
    /\ Cardinality(TreeDirs) = 4
    /\ \E d, e \in TreeDirs \ {0} :
          /\ d < e /\ parsed.recordNumber[e] < parsed.recordNumber[d]
    /\ \E d \in TreeDirs : TreeDepth(d) = 2

C30_WavSelfConsistent ==
    pc = "wav_done" =>
       \A k \in 1..Len(text) :
          /\ text[k].dataSize = text[k].audioBytes
          /\ text[k].chunkSize - 36 = text[k].audioBytes
          /\ text[k].audioBytes =
                IF text[k].name = "Track"
                  THEN (item.total_sector - item.pregap_sector) * 2352
                  ELSE item.pregap_sector * 2352
====
